---- MODULE Spec2Model ----
(***************************************************************************)
(* A model of the Kubernetes batch-system adapter of Toil                  *)
(* (src/toil/batchSystems/kubernetes.py): job submission, enumeration,     *)
(* completion discovery, deletion and confirmation, kill and shutdown,     *)
(* run against a model of the cluster's job and pod objects.               *)
(***************************************************************************)
EXTENDS Integers, Sequences, FiniteSets, TLC

(***************************************************************************)
(* Bounds of the model.                                                    *)
(***************************************************************************)
\* Jobs one adapter instance may be given when a single thread calls it.
MaxJobs == 2
\* Jobs one adapter instance may be given when two threads are calling.
MaxJobsConc == 1
\* Immediate checks one polling getUpdatedBatchJob call may repeat.
MaxPolls == 1
\* Largest internal ID the naming functions are applied to on their own.
MaxID == 120
\* Largest memory and disk, in MiB, of the small job descriptions.
MaxMemMiB == 3
\* Latest poll of _waitForJobDeath at which the job is first reported gone.
MaxGone == 10
\* Most fields an elapsed-time string is built from.
MaxFields == 4
\* Most lines of an accounting listing.
MaxLines == 2
\* Most times the clock moves past the age limit of the credentials.
MaxTicks == 2
\* The attempts the retry decorator makes before it gives up.
MaxAttempts == 3
\* Most items a watch delivers.
MaxItems == 2
\* Most objects a listing holds, and most objects the cluster puts on one page.
MaxListed == 4
MaxPage == 2
\* longest list of batch job IDs handed to coalesce_job_exit_codes
MaxBatch == 2

(***************************************************************************)
(* Adapter instances and the threads that call them.                       *)
(***************************************************************************)
Insts == {"A", "B"}
Callers == {"a1", "a2", "b1"}
inst(c) == IF c = "b1" THEN "B" ELSE "A"

\* self.unique_id: a fresh UUID per adapter instance.
unique_id(i) == IF i = "A" THEN "a" ELSE "b"
\* self.job_prefix = f'{username}-toil-{self.unique_id}-'
job_prefix(i) == "u-toil-" \o unique_id(i) \o "-"
\* self.run_id = f'toil-{self.unique_id}'
run_id(i) == "toil-" \o unique_id(i)

(***************************************************************************)
(* str() and int() on non-negative integers, digit by digit.               *)
(***************************************************************************)
DigitChars == "0123456789"
DigitChar(d) == SubSeq(DigitChars, d + 1, d + 1)
DigitVal(ch) == CHOOSE d \in 0..9 : DigitChar(d) = ch

RECURSIVE str(_)
str(n) == IF n < 10 THEN DigitChar(n)
          ELSE str(n \div 10) \o DigitChar(n % 10)

\* int(s) of a string of digits; -1 stands for the ValueError int('') raises.
RECURSIVE int(_)
int(s) == IF Len(s) = 0 THEN -1
          ELSE IF Len(s) = 1 THEN DigitVal(s)
          ELSE 10 * int(SubSeq(s, 1, Len(s) - 1)) + DigitVal(SubSeq(s, Len(s), Len(s)))

\* jobName = self.job_prefix + str(jobID)
jobName(i, jobID) == job_prefix(i) \o str(jobID)

\* A slice that starts one character too late.
_getIDForOurJob_OffByOne(i, name) == int(SubSeq(name, Len(job_prefix(i)) + 2, Len(name)))

\* int(jobObject.metadata.name[len(self.job_prefix):])
_getIDForOurJob(i, name) == int(SubSeq(name, Len(job_prefix(i)) + 1, Len(name)))

(***************************************************************************)
(* State.                                                                  *)
(***************************************************************************)
VARIABLES
    jobs,            \* the namespace's job objects, by name
    pods,            \* the namespace's pods, by the name of the job they belong to
    nextID,          \* per instance: the ID allocator's counter
    localReady,      \* per instance: local jobs whose result is ready
    enable_watching, \* self.enable_watching (KUBE_WATCH_ENABLED)
    threads,         \* the caller threads that exist in this run
    call,            \* per caller thread: the adapter call it is in
    submitted,       \* per instance: IDs issueBatchJob returned for remote jobs
    returned,        \* per job name: results getUpdatedBatchJob returned for it
    discDeleted,     \* names whose delete request from a discovery call was accepted
    pristine,        \* no discovery, kill or shutdown has been called so far
    removed,         \* the cluster has removed a pod or a job on its own
    fn               \* the naming functions applied on their own: arguments and values

vars == <<jobs, pods, nextID, localReady, enable_watching, threads, call,
          submitted, returned, discDeleted, pristine, removed, fn>>

JobIDs == 0..(MaxJobs - 1)
Names == {jobName(i, k) : i \in Insts, k \in JobIDs}

\* The order in which the cluster lists objects: by name.
NameOrder == [k \in 1..(2 * Cardinality(JobIDs)) |->
                 IF k <= Cardinality(JobIDs) THEN jobName("A", k - 1)
                 ELSE jobName("B", k - 1 - Cardinality(JobIDs))]

\* EXIT_STATUS_UNAVAILABLE_VALUE
EXIT_STATUS_UNAVAILABLE_VALUE == 255

NoResult == [kind |-> "none", jobID |-> -1, exitStatus |-> -1,
             wallTime |-> "", exitReason |-> ""]

\* UpdatedBatchJobInfo(jobID=, exitStatus=, wallTime=, exitReason=)
UpdatedBatchJobInfo(jobID, exitStatus, wallTime, exitReason) ==
    [kind |-> "remote", jobID |-> jobID, exitStatus |-> exitStatus,
     wallTime |-> wallTime, exitReason |-> exitReason]

Idle == [pc |-> "idle", op |-> "none", job |-> "", chosenFor |-> "", pod |-> "none",
         scan |-> <<>>, res |-> NoResult, err |-> "none", maxWait |-> 0, polls |-> 0,
         ids |-> {}, out |-> <<>>]

Set(c, r) == call' = [call EXCEPT ![c] = r]

\* An exception leaves the adapter call: everything local to the call is dropped.
Raise(c, e) == Set(c, [Idle EXCEPT !.pc = "raised", !.op = call[c].op, !.err = e,
                                   !.job = call[c].job])

\* What a remote call that gives up after its retries raises:
\* an ApiException with a status other than 404, or a urllib3 error.
Failures == {"api", "net"}

(***************************************************************************)
(* The cluster: what the Kubernetes API answers, on the job and pod        *)
(* objects of one namespace.                                               *)
(***************************************************************************)
NoJob == [label |-> "", status |-> "absent", deleting |-> FALSE]
NoPod == [label |-> "", state |-> "none"]

Present(n) == jobs[n].status # "absent"
HasPod(n) == pods[n].state # "none"

\* list_namespaced_job(namespace, label_selector=..., [field_selector="status.successful==1"]):
\* the matching jobs in name order. A job being deleted is listed until it is gone.
list_namespaced_job(label, onlySucceeded) ==
    SelectSeq(NameOrder, LAMBDA n : /\ Present(n)
                                    /\ jobs[n].label = label
                                    /\ (onlySucceeded => jobs[n].status = "succeeded"))

\* list_namespaced_pod(namespace, label_selector="toil_run=..."): names of the jobs
\* whose pod carries the label.
list_namespaced_pod(label) ==
    SelectSeq(NameOrder, LAMBDA n : HasPod(n) /\ pods[n].label = label)

\* create_namespaced_job(namespace, job)
create_namespaced_job(n, label) ==
    jobs' = [jobs EXCEPT ![n] = [label |-> label, status |-> "active", deleting |-> FALSE]]

\* delete_namespaced_job(name, namespace, propagation_policy='Foreground') on a job
\* that exists: the job is marked for deletion; the garbage collector removes its
\* pods and then the job.
delete_namespaced_job(n) == jobs' = [jobs EXCEPT ![n].deleting = TRUE]

\* delete_collection_namespaced_job(namespace, label_selector=...,
\* propagation_policy='Background'): the labelled jobs go at once, their pods are
\* left to the garbage collector.
delete_collection_namespaced_job(label) ==
    jobs' = [m \in Names |-> IF jobs[m].label = label THEN NoJob ELSE jobs[m]]

\* delete_namespaced_pod(name, namespace, propagation_policy='Background')
delete_namespaced_pod(n) == pods' = [pods EXCEPT ![n] = NoPod]

(***************************************************************************)
(* The cluster's own steps.                                                *)
(***************************************************************************)
Live(n) == Present(n) /\ ~jobs[n].deleting

\* The job controller creates the job's pod from the template, labels included.
PodStart(n) ==
    /\ Live(n) /\ jobs[n].status = "active" /\ ~HasPod(n)
    /\ pods' = [pods EXCEPT ![n] = [label |-> jobs[n].label, state |-> "sched"]]
    /\ UNCHANGED <<jobs, nextID, localReady, enable_watching, threads, call,
                   submitted, returned, discDeleted, pristine, removed, fn>>

\* The pod's container starts, or waits for ever on an image it cannot pull.
PodRun(n) ==
    /\ Live(n) /\ jobs[n].status = "active" /\ HasPod(n) /\ pods[n].state = "sched"
    /\ \E st \in {"running", "imgpull"} : pods' = [pods EXCEPT ![n].state = st]
    /\ UNCHANGED <<jobs, nextID, localReady, enable_watching, threads, call,
                   submitted, returned, discDeleted, pristine, removed, fn>>

\* The container exits with status 0 and the job succeeds.
JobSucceed(n) ==
    /\ Live(n) /\ jobs[n].status = "active" /\ HasPod(n) /\ pods[n].state = "running"
    /\ pods' = [pods EXCEPT ![n].state = "term0"]
    /\ jobs' = [jobs EXCEPT ![n].status = "succeeded"]
    /\ UNCHANGED <<nextID, localReady, enable_watching, threads, call,
                   submitted, returned, discDeleted, pristine, removed, fn>>

\* The job fails: its container exits with a nonzero status, or the pod fails
\* without its container reporting a termination.
JobFail(n) ==
    /\ Live(n) /\ jobs[n].status = "active" /\ HasPod(n)
    /\ \/ pods[n].state = "running" /\ pods' = [pods EXCEPT ![n].state = "term1"]
       \/ pods[n].state \in {"sched", "running"} /\ UNCHANGED pods
    /\ jobs' = [jobs EXCEPT ![n].status = "failed"]
    /\ UNCHANGED <<nextID, localReady, enable_watching, threads, call,
                   submitted, returned, discDeleted, pristine, removed, fn>>

\* A pod goes away from under its job (its node is lost).
PodVanish(n) ==
    /\ Live(n) /\ HasPod(n)
    /\ delete_namespaced_pod(n)
    /\ removed' = TRUE
    /\ UNCHANGED <<jobs, nextID, localReady, enable_watching, threads, call,
                   submitted, returned, discDeleted, pristine, fn>>

\* ttl_seconds_after_finished runs out: the cluster deletes the finished job.
JobTTL(n) ==
    /\ Live(n) /\ jobs[n].status # "active"
    /\ delete_namespaced_job(n)
    /\ removed' = TRUE
    /\ UNCHANGED <<pods, nextID, localReady, enable_watching, threads, call,
                   submitted, returned, discDeleted, pristine, fn>>

\* The garbage collector: the pods of a job that is gone or being deleted are
\* removed, then the job itself.
GC(n) ==
    /\ \/ HasPod(n) /\ (~Present(n) \/ jobs[n].deleting)
          /\ delete_namespaced_pod(n) /\ UNCHANGED jobs
       \/ ~HasPod(n) /\ Present(n) /\ jobs[n].deleting
          /\ jobs' = [jobs EXCEPT ![n] = NoJob] /\ UNCHANGED pods
    /\ UNCHANGED <<nextID, localReady, enable_watching, threads, call,
                   submitted, returned, discDeleted, pristine, removed, fn>>

Cluster == \E n \in Names :
    PodStart(n) \/ PodRun(n) \/ JobSucceed(n) \/ JobFail(n) \/ PodVanish(n)
        \/ JobTTL(n) \/ GC(n)

(***************************************************************************)
(* The adapter: submission.                                                *)
(***************************************************************************)
\* A thread of this run that is in no adapter call may submit a job. Every thread
\* but b1, which only submits, may call the other operations.
Submits(c) == c \in threads /\ call[c].pc = "idle"
Operates(c) == Submits(c) /\ c # "b1"

\* Jobs an instance may still be given in this run.
JobCap == IF Cardinality(threads) > 1 THEN MaxJobsConc ELSE MaxJobs

\* An enumeration that sends the succeeded-only field selector on every call.
_ourJobObject_AlwaysSucceeded(i, onlySucceeded) == list_namespaced_job(run_id(i), TRUE)

\* An enumeration that sends no label selector.
_ourJobObject_NoSelector(i, onlySucceeded) ==
    SelectSeq(NameOrder, LAMBDA n : /\ Present(n)
                                    /\ (onlySucceeded => jobs[n].status = "succeeded"))

\* _ourJobObject(onlySucceeded): the jobs carrying our run label, every page consumed.
_ourJobObject(i, onlySucceeded) == list_namespaced_job(run_id(i), onlySucceeded)

\* _ourPodObject(): the pods carrying our run label.
_ourPodObject(i) == list_namespaced_pod(run_id(i))

MiB == 1024 * 1024

\* A pod spec whose limits leave out the overhead added to the requests.
_create_pod_spec_LimitsWithoutOverhead(job_desc) ==
    [requests |-> [cpu |-> job_desc.cores,
                   memory |-> job_desc.memory + 1024 * 1024 * 512,
                   ephemeral_storage |-> job_desc.disk + 1024 * 1024 * 512],
     limits |-> [cpu |-> job_desc.cores, memory |-> job_desc.memory,
                 ephemeral_storage |-> job_desc.disk]]

\* _create_pod_spec(job_desc), lines 408-415: the resource requirements of the
\* container, used as its requests and as its limits.
_create_pod_spec(job_desc) ==
    LET requirements_dict == [cpu |-> job_desc.cores,
                              memory |-> job_desc.memory + 1024 * 1024 * 512,
                              ephemeral_storage |-> job_desc.disk + 1024 * 1024 * 512]
        limits_dict == requirements_dict IN
    [requests |-> requirements_dict, limits |-> limits_dict]

\* The job description of the jobs the threads submit: 1 core, 1 GiB, 1 GiB.
job_desc == [cores |-> 1, memory |-> 1024 * MiB, disk |-> 1024 * MiB]

\* issueBatchJob(job_desc): a job the local-jobs collaborator takes gets its ID from
\* it; any other job is created on the cluster under jobName, labelled with run_id.
issueBatchJob(c) ==
    LET i == inst(c)
        jobID == nextID[i] IN
    /\ Submits(c)
    /\ nextID[i] < JobCap
    /\ nextID' = [nextID EXCEPT ![i] = @ + 1]
    /\ \E local \in BOOLEAN :
          IF local
          THEN /\ localReady' = [localReady EXCEPT ![i] = @ \cup {jobID}]
               /\ Set(c, [Idle EXCEPT !.pc = "ret", !.op = "issue", !.out = <<jobID>>])
               /\ UNCHANGED <<jobs, submitted>>
          ELSE /\ UNCHANGED localReady
               /\ \/ /\ create_namespaced_job(jobName(i, jobID), run_id(i))
                     /\ submitted' = [submitted EXCEPT ![i] = @ \cup {jobID}]
                     /\ Set(c, [Idle EXCEPT !.pc = "ret", !.op = "issue",
                                            !.out = <<jobID>>])
                  \/ /\ \E e \in Failures :
                            Set(c, [Idle EXCEPT !.pc = "raised", !.op = "issue", !.err = e])
                     /\ UNCHANGED <<jobs, submitted>>
    /\ UNCHANGED <<pods, enable_watching, threads, returned, discDeleted, pristine,
                   removed, fn>>

\* The call is over: its result or its exception has reached the caller.
Return(c) ==
    /\ call[c].pc \in {"ret", "raised"}
    /\ Set(c, Idle)
    /\ UNCHANGED <<jobs, pods, nextID, localReady, enable_watching, threads,
                   submitted, returned, discDeleted, pristine, removed, fn>>

(***************************************************************************)
(* The adapter: completion discovery.                                      *)
(***************************************************************************)
\* _getPodForJob(jobObject): the first pod selected by job-name=<name>, or None.
_getPodForJob(n) == pods[n].state

\* A margin of 1 GiB.
minFreeBytes_OneGiB == 1024 * 1024 * 1024

\* minFreeBytes=1024 * 1024 * 2, the default of _isPodStuckOOM
minFreeBytes == 1024 * 1024 * 2

\* What list_namespaced_custom_object('metrics.k8s.io', ...) may do: raise an error
\* whose type is in retryable_kubernetes_errors ("transient") or any other error
\* ("other"), or answer with no items, or with an item that has no 'containers'
\* key ("missing"), an empty container list ("none") or one container, whose usage
\* may lack the 'memory' entry (memory = -1).
NoMetrics == [error |-> "none", items |-> 0, containers |-> "none", memory |-> -1]

MetricsErrors == {[NoMetrics EXCEPT !.error = e] : e \in {"transient", "other"}}

MetricsWithout ==
    {NoMetrics} \cup {[NoMetrics EXCEPT !.items = 1, !.containers = k] :
                          k \in {"missing", "none", "one"}}

\* Usage that leaves the given number of bytes free under the limit.
MetricsUsage(bytesAllowed, free) ==
    {[NoMetrics EXCEPT !.items = 1, !.containers = "one", !.memory = bytesAllowed - f] :
        f \in {x \in free : x <= bytesAllowed}}

FreeBytes == {0, MiB, 2 * MiB - 1, 2 * MiB, 2 * MiB + 1, 3 * MiB,
              510 * MiB, 512 * MiB, 513 * MiB}

\* The answers for a pod in the given state: only a running container has usage
\* near its limit.
MetricsAnswers(podState, bytesAllowed) ==
    MetricsErrors \cup MetricsWithout
        \cup (IF podState = "running" THEN MetricsUsage(bytesAllowed, FreeBytes) ELSE {})

\* A comparison that also counts exactly minFreeBytes free as stuck.
_isPodStuckOOM_AtMostMargin(response, bytesAllowed, minFree) ==
    CASE response.error = "transient" -> "false"
      [] response.error = "other" -> "raise"
      [] response.items = 0 -> "false"
      [] response.containers = "none" -> "false"
      [] OTHER ->
           LET bytesUsed == IF response.containers = "missing" \/ response.memory = -1
                            THEN 0 ELSE response.memory IN
           IF bytesAllowed - bytesUsed <= minFree THEN "true" ELSE "false"

\* _isPodStuckOOM(podObject, minFreeBytes), given what the metrics query did and the
\* memory limit of the pod's container, both as the byte counts human2bytes makes
\* of them: "true", "false" (False, or the None the function ends on), or "raise"
\* when the error is passed on.
_isPodStuckOOM(response, bytesAllowed, minFree) ==
    CASE response.error = "transient" -> "false"
      [] response.error = "other" -> "raise"
      [] response.items = 0 -> "false"
      [] response.containers = "none" -> "false"
      [] OTHER ->
           LET bytesUsed == IF response.containers = "missing" \/ response.memory = -1
                            THEN 0 ELSE response.memory IN
           IF bytesAllowed - bytesUsed < minFree THEN "true" ELSE "false"

Last(q) == q[Len(q)]

\* getUpdatedBatchJob(maxWait): entry.
getUpdatedBatchJob(c) ==
    /\ Operates(c)
    /\ \E w \in {0, 1} :
          Set(c, [Idle EXCEPT !.pc = "imm", !.op = "getUpdated", !.maxWait = w])
    /\ pristine' = FALSE
    /\ UNCHANGED <<jobs, pods, nextID, localReady, enable_watching, threads,
                   submitted, returned, discDeleted, removed, fn>>

\* A completion check that goes to the cluster without asking the local-jobs
\* collaborator.
ImmRemoteOnly(c) ==
    LET i == inst(c) IN
    /\ call[c].pc = "imm"
    /\ \/ (\E e \in Failures : Raise(c, e))
       \/ LET l == _ourJobObject(i, TRUE) IN
          IF l # <<>>
          THEN Set(c, [call[c] EXCEPT !.pc = "resolve", !.job = Last(l),
                                       !.chosenFor = "done"])
          ELSE Set(c, [call[c] EXCEPT !.pc = "imm_failed"])
    /\ UNCHANGED <<jobs, pods, nextID, localReady, enable_watching, threads, submitted,
                   returned, discDeleted, pristine, removed, fn>>

\* _getUpdatedBatchJobImmediately, lines 837-859: a ready local result is returned at
\* once; otherwise the succeeded jobs are listed and the loop keeps the last one.
ImmLocalOrDone(c) ==
    LET i == inst(c) IN
    /\ call[c].pc = "imm"
    /\ IF localReady[i] # {}
       THEN /\ \E id \in localReady[i] :
                  /\ localReady' = [localReady EXCEPT ![i] = @ \ {id}]
                  /\ Set(c, [call[c] EXCEPT !.pc = "imm_ret",
                                !.res = [kind |-> "local", jobID |-> id, exitStatus |-> 0,
                                         wallTime |-> "local", exitReason |-> "local"]])
       ELSE /\ UNCHANGED localReady
            /\ \/ (\E e \in Failures : Raise(c, e))
               \/ LET l == _ourJobObject(i, TRUE) IN
                  IF l # <<>>
                  THEN Set(c, [call[c] EXCEPT !.pc = "resolve", !.job = Last(l),
                                               !.chosenFor = "done"])
                  ELSE Set(c, [call[c] EXCEPT !.pc = "imm_failed"])
    /\ UNCHANGED <<jobs, pods, nextID, enable_watching, threads, submitted, returned,
                   discDeleted, pristine, removed, fn>>

\* failCount = getattr(j.status, 'failed', 0), None counted as 0
failCount(n) == IF jobs[n].status = "failed" THEN 1 ELSE 0

\* A failed scan that takes the first listed job whatever its failure count.
ImmFailed_AnyJob(c) ==
    LET i == inst(c) IN
    /\ call[c].pc = "imm_failed"
    /\ \/ (\E e \in Failures : Raise(c, e))
       \/ LET l == _ourJobObject(i, FALSE) IN
          IF l # <<>>
          THEN Set(c, [call[c] EXCEPT !.pc = "resolve", !.job = Head(l),
                                       !.chosenFor = "failed"])
          ELSE Set(c, [call[c] EXCEPT !.pc = "imm_stuck"])
    /\ UNCHANGED <<jobs, pods, nextID, localReady, enable_watching, threads, submitted,
                   returned, discDeleted, pristine, removed, fn>>

\* Lines 861-873: no succeeded job; all jobs are listed and the first one with a
\* failure count above zero is taken.
ImmFailed(c) ==
    LET i == inst(c) IN
    /\ call[c].pc = "imm_failed"
    /\ \/ (\E e \in Failures : Raise(c, e))
       \/ LET l == SelectSeq(_ourJobObject(i, FALSE), LAMBDA n : failCount(n) > 0) IN
          IF l # <<>>
          THEN Set(c, [call[c] EXCEPT !.pc = "resolve", !.job = Head(l),
                                       !.chosenFor = "failed"])
          ELSE Set(c, [call[c] EXCEPT !.pc = "imm_stuck"])
    /\ UNCHANGED <<jobs, pods, nextID, localReady, enable_watching, threads, submitted,
                   returned, discDeleted, pristine, removed, fn>>

\* Line 877: no failed job either; all jobs are listed again to look for a stuck one.
ImmStuckList(c) ==
    /\ call[c].pc = "imm_stuck"
    /\ \/ \E e \in Failures : Raise(c, e)
       \/ Set(c, [call[c] EXCEPT !.pc = "imm_scan", !.scan = _ourJobObject(inst(c), FALSE)])
    /\ UNCHANGED <<jobs, pods, nextID, localReady, enable_watching, threads, submitted,
                   returned, discDeleted, pristine, removed, fn>>

\* Lines 877-919: one turn of the stuck loop, or its end.
ImmScan(c) ==
    LET i == inst(c)
        q == call[c].scan IN
    /\ call[c].pc = "imm_scan"
    /\ IF q = <<>>
       THEN Set(c, [call[c] EXCEPT !.pc = "imm_ret", !.res = NoResult])
       ELSE LET j == Head(q)
                pod == _getPodForJob(j)
                bytesAllowed == _create_pod_spec(job_desc).limits.memory
                skip == Set(c, [call[c] EXCEPT !.scan = Tail(q)])
                take == Set(c, [call[c] EXCEPT !.pc = "resolve", !.job = j,
                                               !.chosenFor = "stuck", !.scan = <<>>]) IN
            \/ (\E e \in Failures : Raise(c, e))
            \/ /\ pod \in {"none", "sched"}
               /\ skip
            \/ /\ pod = "imgpull"
               /\ take
            \/ /\ pod \notin {"none", "sched", "imgpull"}
               /\ \E a \in MetricsAnswers(pod, bytesAllowed) :
                     CASE _isPodStuckOOM(a, bytesAllowed, minFreeBytes) = "true" -> take
                       [] _isPodStuckOOM(a, bytesAllowed, minFreeBytes) = "raise" ->
                              Raise(c, "other")
                       [] OTHER -> skip
    /\ UNCHANGED <<jobs, pods, nextID, localReady, enable_watching, threads, submitted,
                   returned, discDeleted, pristine, removed, fn>>

\* An exit status that reads a finished job without termination info as a success.
resolveExitCode_DoneIsZero(pod, chosenFor) ==
    IF pod \in {"term0", "term1"} /\ chosenFor \in {"done", "failed"}
    THEN (IF pod = "term0" THEN 0 ELSE 1)
    ELSE IF chosenFor = "done" THEN 0 ELSE EXIT_STATUS_UNAVAILABLE_VALUE

\* Lines 940-1007: the exit status: the container's exit code when the job is done
\* or failed and its pod reports a terminated container, the sentinel otherwise.
resolveExitCode(pod, chosenFor) ==
    IF pod # "none" /\ chosenFor \in {"done", "failed"} /\ pod \in {"term0", "term1"}
    THEN (IF pod = "term0" THEN 0 ELSE 1)
    ELSE EXIT_STATUS_UNAVAILABLE_VALUE

\* Lines 925-1007: the chosen job's ID, its pod, and from them the exit status and
\* the run time of the result record.
Resolve(c) ==
    LET i == inst(c)
        j == call[c].job
        chosenFor == call[c].chosenFor
        pod == _getPodForJob(j)
        jobID == _getIDForOurJob(i, j)
        terminated == pod \in {"term0", "term1"}
        exitCode == resolveExitCode(pod, chosenFor)
        runtime ==
            IF pod # "none" /\ chosenFor \in {"done", "failed"}
            THEN (IF terminated THEN "pod_start_to_finish" ELSE "start_to_now")
            ELSE "submit_to_now"
        readLog == pod # "none" /\ chosenFor = "failed" /\ terminated IN
    /\ call[c].pc = "resolve"
    /\ \/ \E e \in Failures : Raise(c, e)
       \/ Set(c, [call[c] EXCEPT !.pc = IF readLog THEN "log" ELSE "delete",
                     !.res = UpdatedBatchJobInfo(jobID, exitCode, runtime, "None")])
    /\ UNCHANGED <<jobs, pods, nextID, localReady, enable_watching, threads, submitted,
                   returned, discDeleted, pristine, removed, fn>>

\* Line 991: _getLogForPod(pod) through _try_kubernetes, which retries a 404 like any
\* other ApiException and raises it when the retries are used up.
LogRead(c) ==
    /\ call[c].pc = "log"
    /\ \/ \E e \in Failures : Raise(c, e)
       \/ IF HasPod(call[c].job)
          THEN Set(c, [call[c] EXCEPT !.pc = "delete"])
          ELSE Raise(c, "notfound")
    /\ UNCHANGED <<jobs, pods, nextID, localReady, enable_watching, threads, submitted,
                   returned, discDeleted, pristine, removed, fn>>

\* A try block that does not go on to _waitForJobDeath after an accepted delete.
AfterDelete_NoConfirm(answer) ==
    CASE answer \in {"ok", "notfound"} -> "done"
      [] OTHER -> "raise"

\* What the try block of lines 1010-1031 does with the answer to the delete request
\* sent through _try_kubernetes_expecting_gone: "wait" to go on to _waitForJobDeath,
\* "done" when a 404 is caught, "raise" for any other error.
AfterDelete(answer) ==
    CASE answer = "ok" -> "wait"
      [] answer = "notfound" -> "done"
      [] OTHER -> "raise"

\* Lines 1010-1015: the delete request for the chosen job.
Delete(c) ==
    LET j == call[c].job IN
    /\ call[c].pc = "delete"
    /\ \E answer \in (IF Present(j) THEN {"ok"} ELSE {"notfound"}) \cup Failures :
          /\ IF answer = "ok"
             THEN delete_namespaced_job(j) /\ discDeleted' = discDeleted \cup {j}
             ELSE UNCHANGED <<jobs, discDeleted>>
          /\ CASE AfterDelete(answer) = "wait" -> Set(c, [call[c] EXCEPT !.pc = "wait"])
               [] AfterDelete(answer) = "done" -> Set(c, [call[c] EXCEPT !.pc = "imm_ret"])
               [] OTHER -> Raise(c, answer)
    /\ UNCHANGED <<pods, nextID, localReady, enable_watching, threads, submitted,
                   returned, pristine, removed, fn>>

\* A loop that stops polling as soon as a read has been answered at all.
AfterRead_StopOnAnyAnswer(answer) ==
    CASE answer \in {"ok", "notfound"} -> "done"
      [] OTHER -> "raise"

\* A loop that takes every failed read for the job being gone.
AfterRead_AnyErrorIsGone(answer) ==
    CASE answer = "ok" -> "again"
      [] OTHER -> "done"

\* What one turn of _waitForJobDeath's loop does with the answer to its read:
\* "again" to sleep and read again, "done" to stop polling, "raise".
AfterRead(answer) ==
    CASE answer = "ok" -> "again"
      [] answer = "notfound" -> "done"
      [] OTHER -> "raise"

\* _waitForJobDeath(jobName), lines 1045-1059: one read of the job through
\* _try_kubernetes_expecting_gone. The caller is the discovery call (pc "wait") or
\* the second loop of killBatchJobs (pc "kill_wait").
WaitForJobDeath(c) ==
    LET inKill == call[c].pc = "kill_wait"
        j == IF inKill THEN Head(call[c].out) ELSE call[c].job IN
    /\ call[c].pc \in {"wait", "kill_wait"}
    /\ \E answer \in (IF Present(j) THEN {"ok"} ELSE {"notfound"}) \cup Failures :
          CASE AfterRead(answer) = "again" -> UNCHANGED call
            [] AfterRead(answer) = "done" ->
                   IF inKill
                   THEN Set(c, [call[c] EXCEPT
                                   !.out = Tail(@),
                                   !.pc = IF Tail(call[c].out) = <<>> THEN "ret" ELSE @])
                   ELSE Set(c, [call[c] EXCEPT !.pc = "imm_ret"])
            [] OTHER -> Raise(c, answer)
    /\ UNCHANGED <<jobs, pods, nextID, localReady, enable_watching, threads, submitted,
                   returned, discDeleted, pristine, removed, fn>>

Bump(n) == IF n < 2 THEN n + 1 ELSE n

\* getUpdatedBatchJob, lines 756-761 and 815-828: what follows an immediate check.
\* A result is returned; without one the call returns (maxWait = 0), watches, or
\* polls again while time remains.
AfterImmediate(c) ==
    LET r == call[c].res
        ret == Set(c, [Idle EXCEPT !.pc = "ret", !.op = "getUpdated", !.res = r,
                                   !.job = IF r.kind = "remote" THEN call[c].job ELSE ""]) IN
    /\ call[c].pc = "imm_ret"
    /\ IF r.kind # "none"
       THEN /\ ret
            /\ returned' = [returned EXCEPT ![jobName(inst(c), r.jobID)] = Bump(@)]
       ELSE /\ UNCHANGED returned
            /\ IF call[c].maxWait = 0
               THEN ret
               ELSE IF enable_watching
                    THEN Set(c, [call[c] EXCEPT !.pc = "watch"])
                    ELSE \/ /\ call[c].polls < MaxPolls
                            /\ Set(c, [call[c] EXCEPT !.pc = "imm", !.polls = @ + 1])
                         \/ ret
    /\ UNCHANGED <<jobs, pods, nextID, localReady, enable_watching, threads, submitted,
                   discDeleted, pristine, removed, fn>>

\* getUpdatedBatchJob, lines 763-814: the watch on our jobs. The first event makes
\* line 771 read jobObject.status.finished, which a job status does not have: the
\* AttributeError leaves the call. A stream that brings no event before it times out
\* or fails ends with no result.
Watch(c) ==
    /\ call[c].pc = "watch"
    /\ \/ _ourJobObject(inst(c), FALSE) # <<>> /\ Raise(c, "attr")
       \/ Set(c, [Idle EXCEPT !.pc = "ret", !.op = "getUpdated"])
    /\ UNCHANGED <<jobs, pods, nextID, localReady, enable_watching, threads, submitted,
                   returned, discDeleted, pristine, removed, fn>>

(***************************************************************************)
(* The adapter: enumeration, kill and shutdown.                            *)
(***************************************************************************)
IDOrder == [k \in 1..MaxJobs |-> k - 1]

Range(q) == {q[k] : k \in 1..Len(q)}

\* _getIssuedNonLocalBatchJobIDs(): the ID of every job of ours the cluster lists.
_getIssuedNonLocalBatchJobIDs(i) ==
    LET got_list == _ourJobObject(i, FALSE) IN
    [k \in 1..Len(got_list) |-> _getIDForOurJob(i, got_list[k])]

\* getIssuedLocalJobIDs() of the local-jobs collaborator.
getIssuedLocalJobIDs(i) == SelectSeq(IDOrder, LAMBDA k : k \in localReady[i])

\* getIssuedBatchJobIDs(): the remote IDs, then the local ones.
getIssuedBatchJobIDs(c) ==
    LET i == inst(c) IN
    /\ Operates(c)
    /\ \/ /\ \E e \in Failures :
                Set(c, [Idle EXCEPT !.pc = "raised", !.op = "getIssued", !.err = e])
       \/ Set(c, [Idle EXCEPT !.pc = "ret", !.op = "getIssued", !.ids = submitted[i],
                     !.scan = _ourJobObject(i, FALSE),
                     !.out = _getIssuedNonLocalBatchJobIDs(i) \o getIssuedLocalJobIDs(i)])
    /\ UNCHANGED <<jobs, pods, nextID, localReady, enable_watching, threads, submitted,
                   returned, discDeleted, pristine, removed, fn>>

\* killBatchJobs, lines 1152-1159: the names the first loop sends a delete request
\* for, the jobs of jobIDs that were listed on the cluster.
killDeleteNames(i, ids, issuedOnKubernetes) ==
    LET jobIDs == SelectSeq(IDOrder, LAMBDA k : k \in ids \cap issuedOnKubernetes) IN
    [k \in 1..Len(jobIDs) |-> jobName(i, jobIDs[k])]

\* A second loop that waits only for the jobs the first loop sent a delete for and
\* that answered at once: none.
killWaitNames_None(i, ids) == <<>>

\* killBatchJobs, lines 1169-1176: the names the second loop waits on, one for every
\* ID of jobIDs.
killWaitNames(i, ids) ==
    LET jobIDs == SelectSeq(IDOrder, LAMBDA k : k \in ids) IN
    [k \in 1..Len(jobIDs) |-> jobName(i, jobIDs[k])]

\* killBatchJobs(jobIDs), lines 1144-1150: the local jobs among jobIDs are killed and
\* the jobs we have on the cluster are listed.
killBatchJobs(c) ==
    LET i == inst(c) IN
    /\ Operates(c)
    /\ \E ids \in SUBSET {k \in JobIDs : k < nextID[i]} :
          /\ ids # {}
          /\ localReady' = [localReady EXCEPT ![i] = @ \ ids]
          /\ \/ \E e \in Failures :
                   Set(c, [Idle EXCEPT !.pc = "raised", !.op = "kill", !.err = e])
             \/ LET issuedOnKubernetes == Range(_getIssuedNonLocalBatchJobIDs(i)) IN
                Set(c, [Idle EXCEPT
                   !.pc = "kill_del", !.op = "kill", !.ids = ids,
                   !.scan = killDeleteNames(i, ids, issuedOnKubernetes),
                   !.out = killWaitNames(i, ids)])
    /\ pristine' = FALSE
    /\ UNCHANGED <<jobs, pods, nextID, enable_watching, threads, submitted, returned,
                   discDeleted, removed, fn>>

\* killBatchJobs, lines 1152-1167: one turn of the first loop, a delete request sent
\* through _try_kubernetes, which raises a 404 like any other ApiException once its
\* retries are used up.
KillDelete(c) ==
    LET q == call[c].scan IN
    /\ call[c].pc = "kill_del"
    /\ IF q = <<>>
       THEN /\ Set(c, [call[c] EXCEPT
                       !.pc = IF call[c].out = <<>> THEN "ret" ELSE "kill_wait"])
            /\ UNCHANGED jobs
       ELSE \E answer \in (IF Present(Head(q)) THEN {"ok"} ELSE {"notfound"}) \cup Failures :
               IF answer = "ok"
               THEN /\ delete_namespaced_job(Head(q))
                    /\ Set(c, [call[c] EXCEPT !.scan = Tail(q)])
               ELSE Raise(c, answer) /\ UNCHANGED jobs
    /\ UNCHANGED <<pods, nextID, localReady, enable_watching, threads, submitted,
                   returned, discDeleted, pristine, removed, fn>>

\* shutdown(), lines 1061-1079: the local jobs are shut down and one request deletes
\* every job carrying our run label. Only an ApiException is caught; after one, the
\* pods are cleaned up one by one.
shutdown(c) ==
    LET i == inst(c) IN
    /\ Operates(c)
    /\ localReady' = [localReady EXCEPT ![i] = {}]
    /\ \E answer \in {"ok"} \cup Failures :
          CASE answer = "ok" ->
                   /\ delete_collection_namespaced_job(run_id(i))
                   /\ Set(c, [Idle EXCEPT !.pc = "ret", !.op = "shutdown"])
            [] answer = "api" ->
                   /\ Set(c, [Idle EXCEPT !.pc = "sd_list", !.op = "shutdown",
                                          !.chosenFor = "fallback"])
                   /\ UNCHANGED jobs
            [] OTHER ->
                   /\ Set(c, [Idle EXCEPT !.pc = "raised", !.op = "shutdown",
                                          !.err = answer])
                   /\ UNCHANGED jobs
    /\ pristine' = FALSE
    /\ UNCHANGED <<pods, nextID, enable_watching, threads, submitted, returned,
                   discDeleted, removed, fn>>

\* shutdown, lines 1081-1100: the pods carrying our run label are listed and each is
\* deleted through _try_kubernetes_expecting_gone; an ApiException from a delete is
\* logged (a 404 silently), any other error leaves the call.
ShutdownPods(c) ==
    LET q == call[c].scan IN
    /\ call[c].pc \in {"sd_list", "sd_pods"}
    /\ IF call[c].pc = "sd_list"
       THEN /\ \/ \E e \in Failures : Raise(c, e)
               \/ LET l == _ourPodObject(inst(c)) IN
                  Set(c, [call[c] EXCEPT !.pc = IF l = <<>> THEN "ret" ELSE "sd_pods",
                                         !.scan = l])
            /\ UNCHANGED pods
       ELSE LET rest == Set(c, [call[c] EXCEPT !.scan = Tail(q),
                                   !.pc = IF Tail(q) = <<>> THEN "ret" ELSE @]) IN
            \E answer \in (IF HasPod(Head(q)) THEN {"ok"} ELSE {"notfound"}) \cup Failures :
               CASE answer = "ok" ->
                        /\ delete_namespaced_pod(Head(q))
                        /\ rest
                 [] answer \in {"notfound", "api"} ->
                        rest /\ UNCHANGED pods
                 [] OTHER ->
                        Raise(c, answer) /\ UNCHANGED pods
    /\ UNCHANGED <<jobs, nextID, localReady, enable_watching, threads, submitted,
                   returned, discDeleted, pristine, removed, fn>>

(***************************************************************************)
(* The specification.                                                      *)
(***************************************************************************)
NoFn == [op |-> "none", inst |-> "", a |-> 0, b |-> 0, na |-> "", nb |-> "", id |-> 0]

\* The state after construction of the adapter: nothing on the cluster, no thread
\* inside a call. KUBE_WATCH_ENABLED is set or not.
Start ==
    /\ jobs = [n \in Names |-> NoJob]
    /\ pods = [n \in Names |-> NoPod]
    /\ nextID = [i \in Insts |-> 0]
    /\ localReady = [i \in Insts |-> {}]
    /\ enable_watching \in BOOLEAN
    /\ call = [c \in Callers |-> Idle]
    /\ submitted = [i \in Insts |-> {}]
    /\ returned = [n \in Names |-> 0]
    /\ discDeleted = {}
    /\ pristine = TRUE
    /\ removed = FALSE

\* One thread calls one adapter instance.
Init == Start /\ threads = {"a1"} /\ fn = NoFn

\* Two threads call the same adapter instance.
InitConc == Start /\ threads = {"a1", "a2"} /\ fn = NoFn

\* Two adapter instances share the namespace. Thread a1 runs every operation of
\* instance A; thread b1 only submits the jobs of instance B, which the cluster runs.
InitTwo == Start /\ threads = {"a1", "b1"} /\ fn = NoFn

Adapter == \E c \in Callers :
    \/ issueBatchJob(c)
    \/ Return(c)
    \/ getIssuedBatchJobIDs(c)
    \/ getUpdatedBatchJob(c)
    \/ ImmLocalOrDone(c)
    \/ ImmFailed(c)
    \/ ImmStuckList(c)
    \/ ImmScan(c)
    \/ Resolve(c)
    \/ LogRead(c)
    \/ Delete(c)
    \/ WaitForJobDeath(c)
    \/ AfterImmediate(c)
    \/ Watch(c)
    \/ killBatchJobs(c)
    \/ KillDelete(c)
    \/ shutdown(c)
    \/ ShutdownPods(c)

Next == Cluster \/ Adapter

Spec == Init /\ [][Next]_vars

SpecConc == InitConc /\ [][Next]_vars

SpecTwo == InitTwo /\ [][Next]_vars

(***************************************************************************)
(* The naming functions on their own: issueBatchJob's jobName for two      *)
(* internal IDs of one instance, then _getIDForOurJob of the first name.   *)
(***************************************************************************)
InitName ==
    /\ Start /\ threads = {}
    /\ \E i \in Insts, a \in 0..MaxID, b \in 0..MaxID :
          fn = [NoFn EXCEPT !.op = "ids", !.inst = i, !.a = a, !.b = b]

ApplyJobName ==
    /\ fn.op = "ids"
    /\ fn' = [fn EXCEPT !.op = "names", !.na = jobName(fn.inst, fn.a),
                        !.nb = jobName(fn.inst, fn.b)]
    /\ UNCHANGED <<jobs, pods, nextID, localReady, enable_watching, threads, call,
                   submitted, returned, discDeleted, pristine, removed>>

ApplyGetID ==
    /\ fn.op = "names"
    /\ fn' = [fn EXCEPT !.op = "id", !.id = _getIDForOurJob(fn.inst, fn.na)]
    /\ UNCHANGED <<jobs, pods, nextID, localReady, enable_watching, threads, call,
                   submitted, returned, discDeleted, pristine, removed>>

NextName == ApplyJobName \/ ApplyGetID

SpecName == InitName /\ [][NextName]_vars

(***************************************************************************)
(* _create_pod_spec and _isPodStuckOOM on their own: the pod spec of a job *)
(* description, then the stuck check of its pod against one answer of the  *)
(* metrics service.                                                        *)
(***************************************************************************)
MemMiB == (0..MaxMemMiB) \cup {1024}

JobDescs == {[cores |-> c, memory |-> m * MiB, disk |-> d * MiB] :
                c \in 1..2, m \in MemMiB, d \in MemMiB}

NoPodFn == [op |-> "none", desc |-> job_desc, spec |-> _create_pod_spec(job_desc),
            response |-> NoMetrics, result |-> ""]

InitPod ==
    /\ Start /\ threads = {}
    /\ \E d \in JobDescs : fn = [NoPodFn EXCEPT !.op = "desc", !.desc = d]

ApplyCreatePodSpec ==
    /\ fn.op = "desc"
    /\ fn' = [fn EXCEPT !.op = "spec", !.spec = _create_pod_spec(fn.desc)]
    /\ UNCHANGED <<jobs, pods, nextID, localReady, enable_watching, threads, call,
                   submitted, returned, discDeleted, pristine, removed>>

ApplyIsPodStuckOOM ==
    /\ fn.op = "spec"
    /\ \E response \in MetricsAnswers("running", fn.spec.limits.memory) :
          fn' = [fn EXCEPT !.op = "oom", !.response = response,
                    !.result = _isPodStuckOOM(response, fn.spec.limits.memory,
                                              minFreeBytes)]
    /\ UNCHANGED <<jobs, pods, nextID, localReady, enable_watching, threads, call,
                   submitted, returned, discDeleted, pristine, removed>>

NextPod == ApplyCreatePodSpec \/ ApplyIsPodStuckOOM

SpecPod == InitPod /\ [][NextPod]_vars

(***************************************************************************)
(* _waitForJobDeath on its own, with its sleeps: the job is first reported *)
(* gone at the k-th read. Times are in milliseconds.                       *)
(***************************************************************************)
\* backoffTime = 0.1
backoffTime0 == 100
\* maxBackoffTime = 6.4
maxBackoffTime == 6400

\* A backoff that doubles without looking at the maximum.
nextBackoff_NoCap(backoffTime) == backoffTime * 2

\* Lines 1051-1052: if backoffTime < maxBackoffTime: backoffTime *= 2
nextBackoff(backoffTime) ==
    IF backoffTime < maxBackoffTime THEN backoffTime * 2 ELSE backoffTime

InitWait ==
    /\ Start /\ threads = {}
    /\ \E k \in 1..MaxGone :
          fn = [op |-> "waiting", k |-> k, polls |-> 0, sleeps |-> <<>>,
                backoffTime |-> backoffTime0, answer |-> ""]

\* One turn of the loop of lines 1045-1059.
PollJob ==
    /\ fn.op = "waiting"
    /\ \E answer \in {IF fn.polls + 1 >= fn.k THEN "notfound" ELSE "ok"} \cup Failures :
          CASE AfterRead(answer) = "again" ->
                  fn' = [fn EXCEPT !.polls = @ + 1, !.answer = answer,
                                   !.sleeps = Append(@, fn.backoffTime),
                                   !.backoffTime = nextBackoff(@)]
            [] AfterRead(answer) = "done" ->
                  fn' = [fn EXCEPT !.polls = @ + 1, !.answer = answer, !.op = "gone"]
            [] OTHER ->
                  fn' = [fn EXCEPT !.polls = @ + 1, !.answer = answer,
                                   !.op = "raised"]
    /\ UNCHANGED <<jobs, pods, nextID, localReady, enable_watching, threads, call,
                   submitted, returned, discDeleted, pristine, removed>>

NextWait == PollJob

SpecWait == InitWait /\ [][NextWait]_vars

\* The thread inside _waitForJobDeath keeps running: a read that is due is made.
SpecWaitFair == SpecWait /\ WF_vars(PollJob)

(***************************************************************************)
(* parse_elapsed of the Slurm batch system (slurm.py) on its own.          *)
(***************************************************************************)
\* elapsed.replace(old, new), for one-character old
RECURSIVE replace(_, _, _)
replace(s, old, new) ==
    IF Len(s) = 0 THEN ""
    ELSE (IF SubSeq(s, 1, 1) = old THEN new ELSE SubSeq(s, 1, 1))
            \o replace(SubSeq(s, 2, Len(s)), old, new)

\* Position of the first sep in s, or 0.
RECURSIVE find(_, _, _)
find(s, sep, from) ==
    IF from + Len(sep) - 1 > Len(s) THEN 0
    ELSE IF SubSeq(s, from, from + Len(sep) - 1) = sep THEN from
    ELSE find(s, sep, from + 1)

\* s.split(sep): a list of at least one string
RECURSIVE split(_, _)
split(s, sep) ==
    LET at == find(s, sep, 1) IN
    IF at = 0 THEN <<s>>
    ELSE <<SubSeq(s, 1, at - 1)>> \o split(SubSeq(s, at + Len(sep), Len(s)), sep)

\* list.reverse()
reverse(q) == [k \in 1..Len(q) |-> q[Len(q) + 1 - k]]

\* Whether int(s) returns rather than raising ValueError, for strings of digits
\* and other characters that are neither signs, blanks nor underscores.
RECURSIVE isInt(_)
isInt(s) ==
    /\ Len(s) > 0
    /\ \E d \in 0..9 : DigitChar(d) = SubSeq(s, 1, 1)
    /\ (Len(s) > 1 => isInt(SubSeq(s, 2, Len(s))))

seconds_per_unit == <<1, 60, 3600, 86400>>

\* The loop of lines 314-316 from position index on; the ValueError of int() ends
\* it and leaves total_seconds as it is.
RECURSIVE accumulate(_, _, _)
accumulate(elapsed, index, total_seconds) ==
    IF index > Len(seconds_per_unit) THEN total_seconds
    ELSE IF index > Len(elapsed) THEN accumulate(elapsed, index + 1, total_seconds)
    ELSE IF ~isInt(elapsed[index]) THEN total_seconds
    ELSE accumulate(elapsed, index + 1,
                    total_seconds + seconds_per_unit[index] * int(elapsed[index]))

\* A parser that does not reverse the fields.
parse_elapsed_NoReverse(elapsed) ==
    accumulate(split(replace(elapsed, "-", ":"), ":"), 1, 0)

\* parse_elapsed(elapsed), slurm.py lines 305-320
parse_elapsed(elapsed) ==
    accumulate(reverse(split(replace(elapsed, "-", ":"), ":")), 1, 0)

\* The fields elapsed strings are built from: their text and, for the well-formed
\* ones, the number they stand for (-1 for the others).
Fields == {[text |-> "00", val |-> 0], [text |-> "1", val |-> 1],
           [text |-> "01", val |-> 1], [text |-> "02", val |-> 2],
           [text |-> "03", val |-> 3], [text |-> "59", val |-> 59],
           [text |-> "X", val |-> -1], [text |-> "", val |-> -1],
           [text |-> "1X", val |-> -1]}

\* The fields joined, most significant first; the days are set off by daySep.
RECURSIVE join(_, _)
join(fields, daySep) ==
    IF Len(fields) = 1 THEN fields[1].text
    ELSE fields[1].text \o (IF Len(fields) = 4 THEN daySep ELSE ":")
            \o join(Tail(fields), daySep)

InitElapsed ==
    /\ Start /\ threads = {}
    /\ \E n \in 1..MaxFields, daySep \in {"-", ":"} :
          \E fields \in [1..n -> Fields] :
             fn = [op |-> "elapsed", fields |-> fields,
                   elapsed |-> join(fields, daySep), result |-> 0]

ApplyParseElapsed ==
    /\ fn.op = "elapsed"
    /\ fn' = [fn EXCEPT !.op = "parsed", !.result = parse_elapsed(fn.elapsed)]
    /\ UNCHANGED <<jobs, pods, nextID, localReady, enable_watching, threads, call,
                   submitted, returned, discDeleted, pristine, removed>>

NextElapsed == ApplyParseElapsed

SpecElapsed == InitElapsed /\ [][NextElapsed]_vars

(***************************************************************************)
(* The accounting side of the Slurm batch system (slurm.py) on its own:    *)
(* _getJobDetailsFromSacct on a listing printed by sacct, then             *)
(* getJobExitCode on the same listing.                                     *)
(***************************************************************************)
\* str.strip() of blanks and line ends
RECURSIVE strip(_)
strip(s) ==
    IF Len(s) > 0 /\ SubSeq(s, 1, 1) \in {" ", "\n"} THEN strip(SubSeq(s, 2, Len(s)))
    ELSE IF Len(s) > 0 /\ SubSeq(s, Len(s), Len(s)) \in {" ", "\n"}
         THEN strip(SubSeq(s, 1, Len(s) - 1))
    ELSE s

\* str.splitlines()
RECURSIVE splitlines(_)
splitlines(s) ==
    LET at == find(s, "\n", 1) IN
    IF Len(s) = 0 THEN <<>>
    ELSE IF at = 0 THEN <<s>>
    ELSE <<SubSeq(s, 1, at - 1)>> \o splitlines(SubSeq(s, at + 1, Len(s)))

\* The job IDs Slurm has given out.
SlurmJobIDs == {7, 8}

\* A dict of job statuses: has tells whether the key is there; a value is the
\* tuple (state, return code), a return code being <<>> for None or <<code>>.
NoKey == [has |-> FALSE, state |-> "None", rc |-> <<>>]
NoneStatus == [has |-> TRUE, state |-> "None", rc |-> <<>>]

\* A loop body that files the records of job steps under their job.
sacctLine_StepsCount(job_statuses, line) ==
    LET values == split(strip(line), "|") IN
    IF Len(values) < 3 THEN job_statuses
    ELSE LET job_id == int(split(values[1], ".")[1])
             pair == split(values[3], ":")
             signal == int(pair[2])
             status == IF signal > 0 THEN 128 + signal ELSE int(pair[1]) IN
         [job_statuses EXCEPT ![job_id] = [has |-> TRUE, state |-> values[2],
                                           rc |-> <<status>>]]

\* _getJobDetailsFromSacct, lines 157-174: what one line of the listing does to
\* the dict.
sacctLine(job_statuses, line) ==
    LET values == split(strip(line), "|") IN
    IF Len(values) < 3 THEN job_statuses
    ELSE LET job_id_raw == values[1]
             state == values[2]
             exitcode == values[3]
             job_id_parts == split(job_id_raw, ".") IN
         IF Len(job_id_parts) > 1 THEN job_statuses
         ELSE LET job_id == int(job_id_parts[1])
                  pair == split(exitcode, ":")
                  signal == int(pair[2])
                  status == IF signal > 0 THEN 128 + signal ELSE int(pair[1]) IN
              [job_statuses EXCEPT ![job_id] = [has |-> TRUE, state |-> state,
                                                rc |-> <<status>>]]

RECURSIVE sacctLines(_, _)
sacctLines(job_statuses, lines) ==
    IF lines = <<>> THEN job_statuses
    ELSE sacctLines(sacctLine(job_statuses, Head(lines)), Tail(lines))

\* _getJobDetailsFromSacct(job_id_list), given what sacct printed
_getJobDetailsFromSacct(job_id_list, stdout) ==
    sacctLines([j \in SlurmJobIDs |->
                   IF \E k \in 1..Len(job_id_list) : job_id_list[k] = j
                   THEN NoneStatus ELSE NoKey],
               splitlines(stdout))

\* The states in which a job has no return code yet.
RunningStates == {"PENDING", "RUNNING", "CONFIGURING", "COMPLETING", "RESIZING",
                  "SUSPENDED"}

\* A check that leaves COMPLETING out of the running states.
_get_job_return_code_NoCompleting(status) ==
    IF status.state \in RunningStates \ {"COMPLETING"} THEN <<>> ELSE status.rc

\* _get_job_return_code(status)
_get_job_return_code(status) ==
    IF status.state \in RunningStates THEN <<>> ELSE status.rc

\* getJobExitCode(batchJobID), given what sacct printed
getJobExitCode(batchJobID, stdout) ==
    LET job_id == int(split(batchJobID, ".")[1])
        status_dict == _getJobDetailsFromSacct(<<job_id>>, stdout) IN
    _get_job_return_code(status_dict[job_id])

\* The records sacct may print: of a job or of one of its steps, in a state, with
\* an exit-code pair status:signal.
SacctRecords ==
    {[id |-> i.id, step |-> i.step, state |-> st, status |-> x.status,
      signal |-> x.signal] :
        i \in {[id |-> 7, step |-> ""], [id |-> 7, step |-> ".batch"],
               [id |-> 8, step |-> ""]},
        st \in RunningStates \cup {"COMPLETED", "FAILED"},
        x \in {[status |-> 0, signal |-> 0], [status |-> 0, signal |-> 9],
               [status |-> 1, signal |-> 0]}}

\* One record as sacct -n -P --format JobIDRaw,State,ExitCode prints it.
sacctText(r) ==
    str(r.id) \o r.step \o "|" \o r.state \o "|" \o str(r.status) \o ":"
        \o str(r.signal) \o "\n"

RECURSIVE sacctOutput(_)
sacctOutput(records) ==
    IF records = <<>> THEN ""
    ELSE sacctText(Head(records)) \o sacctOutput(Tail(records))

InitSacct ==
    /\ Start /\ threads = {} /\ ~enable_watching
    /\ \E n \in 1..MaxLines, batchJobID \in {"7", "7.0"} :
          \E records \in [1..n -> SacctRecords] :
             fn = [op |-> "listing", records |-> records,
                   stdout |-> sacctOutput(records), batchJobID |-> batchJobID,
                   job_statuses |-> [j \in SlurmJobIDs |-> NoKey], rc |-> <<>>]

ApplyGetJobDetailsFromSacct ==
    /\ fn.op = "listing"
    /\ fn' = [fn EXCEPT !.op = "details",
                        !.job_statuses = _getJobDetailsFromSacct(<<7>>, fn.stdout)]
    /\ UNCHANGED <<jobs, pods, nextID, localReady, enable_watching, threads, call,
                   submitted, returned, discDeleted, pristine, removed>>

ApplyGetJobExitCode ==
    /\ fn.op = "details"
    /\ fn' = [fn EXCEPT !.op = "exitcode",
                        !.rc = getJobExitCode(fn.batchJobID, fn.stdout)]
    /\ UNCHANGED <<jobs, pods, nextID, localReady, enable_watching, threads, call,
                   submitted, returned, discDeleted, pristine, removed>>

NextSacct == ApplyGetJobDetailsFromSacct \/ ApplyGetJobExitCode

SpecSacct == InitSacct /\ [][NextSacct]_vars

(***************************************************************************)
(* _get_job_details and coalesce_job_exit_codes of the Slurm batch system  *)
(* (slurm.py): sacct first, scontrol when the call of sacct fails.         *)
(***************************************************************************)
\* What call_command raises instead of returning the command's output:
\* CalledProcessErrorStderr, the one _get_job_details catches (line 117), and
\* OSError, the one submitJob catches around its own call_command (line 74).
CallErrors == {"CalledProcessErrorStderr", "OSError"}

\* str.split() without a separator: the words between blanks
splitWords(s) == SelectSeq(split(s, " "), LAMBDA w : w # "")

\* str.split(sep, 1)
split1(s, sep) ==
    LET at == find(s, sep, 1) IN
    IF at = 0 THEN <<s>>
    ELSE <<SubSeq(s, 1, at - 1), SubSeq(s, at + Len(sep), Len(s))>>

\* The keys scontrol show job prints here.
ScontrolKeys == {"JobId", "JobName", "JobState", "Reason", "ExitCode"}

\* The locals of the loop over scontrol's records: job maps a key to <<>> (not
\* there) or <<value>>; key and job_id are unbound ("" and -1) until assigned and
\* live on from one record to the next; raised names the exception that ended
\* the loop, if any.
NoParse == [job |-> [k \in ScontrolKeys |-> <<>>], key |-> "", job_id |-> -1,
            raised |-> ""]

\* Lines 216-227: one item of a line, key=value or the rest of the value before.
scontrolItem(p, item) ==
    LET bits == split1(item, "=") IN
    IF p.raised # "" THEN p
    ELSE IF Len(bits) = 1
         THEN IF p.key = "" THEN [p EXCEPT !.raised = "UnboundLocalError"]
              ELSE IF p.job[p.key] = <<>> THEN [p EXCEPT !.raised = "KeyError"]
              ELSE [p EXCEPT !.job[p.key] = <<@[1] \o " " \o bits[1]>>]
         ELSE [p EXCEPT !.key = bits[1], !.job[bits[1]] = <<bits[2]>>]

RECURSIVE scontrolItems(_, _)
scontrolItems(p, items) ==
    IF items = <<>> THEN p
    ELSE scontrolItems(scontrolItem(p, Head(items)), Tail(items))

\* Lines 215-233: the lines of one record; the loop breaks after the first line
\* whose JobId is not asked for.
RECURSIVE scontrolRecordLines(_, _, _)
scontrolRecordLines(p, lines, job_id_list) ==
    IF lines = <<>> \/ p.raised # "" THEN p
    ELSE LET q == scontrolItems(p, splitWords(Head(lines))) IN
         IF q.raised # "" THEN q
         ELSE IF q.job["JobId"] = <<>> THEN [q EXCEPT !.raised = "KeyError"]
         ELSE LET r == [q EXCEPT !.job_id = int(q.job["JobId"][1])] IN
              IF r.job_id \notin Range(job_id_list) THEN r
              ELSE scontrolRecordLines(r, Tail(lines), job_id_list)

\* Lines 213-252: what one record does to the dict.
scontrolRecord(a, record, job_id_list) ==
    LET p == scontrolRecordLines([a.p EXCEPT !.job = NoParse.job], splitlines(record),
                                 job_id_list) IN
    IF a.p.raised # "" THEN a
    ELSE IF p.raised # "" THEN [a EXCEPT !.p = p]
    ELSE IF p.job_id = -1 THEN [a EXCEPT !.p.raised = "UnboundLocalError"]
    ELSE IF p.job_id \notin Range(job_id_list) THEN [a EXCEPT !.p = p]
    ELSE IF p.job["JobState"] = <<>> THEN [a EXCEPT !.p = [p EXCEPT !.raised = "KeyError"]]
    ELSE LET state == p.job["JobState"][1]
             exitcode == p.job["ExitCode"]
             pair == split(exitcode[1], ":")
             signal == int(pair[2])
             status == IF signal > 0 THEN 128 + signal ELSE int(pair[1])
             rc == IF exitcode = <<>> THEN <<>> ELSE <<status>> IN
         [a EXCEPT !.p = p,
                   !.job_statuses[p.job_id] = [has |-> TRUE, state |-> state, rc |-> rc]]

RECURSIVE scontrolRecords(_, _, _)
scontrolRecords(a, job_records, job_id_list) ==
    IF job_records = <<>> THEN a
    ELSE scontrolRecords(scontrolRecord(a, Head(job_records), job_id_list),
                         Tail(job_records), job_id_list)

\* _getJobDetailsFromScontrol(job_id_list), given what scontrol printed: the dict
\* in job_statuses, and in p.raised the exception raised instead, if any.
_getJobDetailsFromScontrol(job_id_list, stdout) ==
    LET job_records == split(strip(stdout), "\n\n")
        job_statuses == [j \in SlurmJobIDs |->
                            IF j \in Range(job_id_list) THEN NoneStatus ELSE NoKey] IN
    IF job_records[1] = "No jobs in the system"
    THEN [job_statuses |-> job_statuses, p |-> NoParse]
    ELSE scontrolRecords([job_statuses |-> job_statuses, p |-> NoParse], job_records,
                         job_id_list)

\* The keys of the dict in the order of their insertion (lines 153-154 and
\* 202-203): the requested IDs as they first come in job_id_list. No other key is
\* added: sacct -j prints the requested jobs only, the scontrol loop skips the
\* others.
RECURSIVE dictKeys(_, _)
dictKeys(keys, more) ==
    IF more = <<>> THEN keys
    ELSE dictKeys(IF Head(more) \in Range(keys) THEN keys ELSE Append(keys, Head(more)),
                  Tail(more))

\* coalesce_job_exit_codes, lines 89-92: the return codes of the dict's items.
coalesce_job_exit_codes(job_id_list, status_dict) ==
    [k \in 1..Len(status_dict.keys) |->
        _get_job_return_code(status_dict.val[status_dict.keys[k]])]

\* The batch job IDs handed in: of a job, or of a step of it.
BatchJobIDs == {"7", "8", "7.0", "7.1"}

\* What sacct prints in this part: records of jobs and steps, running or completed.
DetailsSacctRecords ==
    {r \in SacctRecords : r.state \in {"RUNNING", "COMPLETED"} /\ r.status = 0}

\* The records of scontrol show job: the exit code may be missing, a job name may
\* hold a blank.
ScontrolRecords ==
    {[id |-> i, name |-> n, state |-> st, exitcode |-> x] :
        i \in SlurmJobIDs, n \in {"toil_job", "toil job"},
        st \in {"RUNNING", "COMPLETED"}, x \in {"", "0:0", "0:9"}}

\* One record as scontrol prints it, the blank line after it included.
scontrolText(r) ==
    "JobId=" \o str(r.id) \o " JobName=" \o r.name \o "\n"
        \o "   JobState=" \o r.state \o " Reason=None\n"
        \o (IF r.exitcode = "" THEN "" ELSE "   ExitCode=" \o r.exitcode \o "\n")
        \o "\n"

RECURSIVE scontrolOutput(_)
scontrolOutput(records) ==
    IF records = <<>> THEN ""
    ELSE scontrolText(Head(records)) \o scontrolOutput(Tail(records))

NoDict == [keys |-> <<>>, val |-> [j \in SlurmJobIDs |-> NoKey]]
NoCall == [error |-> "not called", stdout |-> ""]

\* A call of coalesce_job_exit_codes with one to MaxBatch IDs, and what the call
\* of sacct -j will do: fail, or print records of the requested jobs.
InitDetails ==
    /\ Start /\ threads = {} /\ ~enable_watching
    /\ \E n \in 1..MaxBatch, m \in 0..MaxLines :
          \E batch_job_id_list \in [1..n -> BatchJobIDs],
             records \in [1..m -> DetailsSacctRecords],
             error \in {"none"} \cup CallErrors :
             /\ \A k \in 1..m :
                   \E b \in 1..n : int(split(batch_job_id_list[b], ".")[1]) = records[k].id
             /\ error # "none" => m = 0
             /\ fn = [op |-> "start", batch_job_id_list |-> batch_job_id_list,
                      job_id_list |-> <<>>,
                      sacct |-> [error |-> error, stdout |-> sacctOutput(records)],
                      scontrol |-> NoCall, ran |-> <<>>, status_dict |-> NoDict,
                      err |-> "", exit_codes |-> <<>>]

DetailsUnchanged ==
    UNCHANGED <<jobs, pods, nextID, localReady, enable_watching, threads, call,
                submitted, returned, discDeleted, pristine, removed>>

\* coalesce_job_exit_codes, lines 86-89: the integer job IDs, and the call of
\* _get_job_details.
CoalesceEnter ==
    /\ fn.op = "start"
    /\ fn' = [fn EXCEPT !.op = "sacct",
                        !.job_id_list = [k \in 1..Len(fn.batch_job_id_list) |->
                                            int(split(fn.batch_job_id_list[k], ".")[1])]]
    /\ DetailsUnchanged

\* _get_job_details, lines 115-117: _getJobDetailsFromSacct. Its result is
\* returned; a CalledProcessErrorStderr of its call_command is caught, any other
\* exception leaves _get_job_details.
CallSacct ==
    /\ fn.op = "sacct"
    /\ fn' = CASE fn.sacct.error = "none" ->
                    [fn EXCEPT !.op = "returned", !.ran = <<"sacct">>,
                               !.status_dict =
                                   [keys |-> dictKeys(<<>>, fn.job_id_list),
                                    val |-> _getJobDetailsFromSacct(fn.job_id_list,
                                                                    fn.sacct.stdout)]]
               [] fn.sacct.error = "CalledProcessErrorStderr" ->
                    [fn EXCEPT !.op = "scontrol", !.ran = <<"sacct">>]
               [] OTHER ->
                    [fn EXCEPT !.op = "raised", !.ran = <<"sacct">>,
                               !.err = fn.sacct.error]
    /\ DetailsUnchanged

\* _get_job_details, line 118: _getJobDetailsFromScontrol after sacct has failed.
\* scontrol show job fails, or prints "No jobs in the system", or the records of
\* the one job asked for or of all jobs.
CallScontrol ==
    /\ fn.op = "scontrol"
    /\ \E m \in 0..MaxLines :
          \E records \in [1..m -> ScontrolRecords], error \in {"none"} \cup CallErrors :
             LET stdout == IF m = 0 THEN "No jobs in the system\n"
                           ELSE scontrolOutput(records)
                 a == _getJobDetailsFromScontrol(fn.job_id_list, stdout)
                 ran == fn.ran \o <<"scontrol">> IN
             /\ error # "none" => m = 0
             /\ Len(fn.job_id_list) = 1 =>
                   m <= 1 /\ \A k \in 1..m : records[k].id = fn.job_id_list[1]
             /\ \A k, l \in 1..m : records[k].id = records[l].id => k = l
             /\ fn' = CASE error # "none" ->
                             [fn EXCEPT !.op = "raised", !.ran = ran, !.err = error,
                                        !.scontrol = [error |-> error, stdout |-> ""]]
                        [] error = "none" /\ a.p.raised # "" ->
                             [fn EXCEPT !.op = "raised", !.ran = ran,
                                        !.err = a.p.raised,
                                        !.scontrol = [error |-> error, stdout |-> stdout]]
                        [] OTHER ->
                             [fn EXCEPT !.op = "returned", !.ran = ran,
                                        !.scontrol = [error |-> error, stdout |-> stdout],
                                        !.status_dict =
                                            [keys |-> dictKeys(<<>>, fn.job_id_list),
                                             val |-> a.job_statuses]]
    /\ DetailsUnchanged

\* coalesce_job_exit_codes, lines 89-92, on what _get_job_details returned.
Coalesce ==
    /\ fn.op = "returned"
    /\ fn' = [fn EXCEPT !.op = "coalesced",
                        !.exit_codes = coalesce_job_exit_codes(fn.job_id_list,
                                                               fn.status_dict)]
    /\ DetailsUnchanged

NextDetails == CoalesceEnter \/ CallSacct \/ CallScontrol \/ Coalesce

SpecDetails == InitDetails /\ [][NextDetails]_vars

(***************************************************************************)
(* _api on its own: two threads of one adapter ask for client handles and  *)
(* for the namespace while the clock passes the age limit of the           *)
(* credentials.  The method takes no lock, so each statement that reads or *)
(* writes credential_time or _apis is a step of its own.  A handle is      *)
(* known by the number of the refresh that made it.                        *)
(***************************************************************************)
ApiThreads == {"t1", "t2"}
Kinds == {"batch", "core", "customObjects"}
max_age_seconds == 5 * 60
TickSeconds == max_age_seconds + 1

\* Where the credentials of this process come from, and the namespace that
\* source names (<<>>: the active context names none).
ConfigSources ==
    {[source |-> "kube", namespace |-> <<"toil">>],
     [source |-> "kube", namespace |-> <<>>],
     [source |-> "in_cluster", namespace |-> <<"toil">>]}

\* A thread outside _api.
ApiIdle == [pc |-> "idle", kind |-> "", now |-> 0, config_source |-> "unbound",
            refresh |-> 0, ret |-> "", raised |-> "", apis |-> [k \in Kinds |-> 0]]

\* After __init__: its call _api('namespace') made refresh 1 at time 0.
InitApi ==
    /\ Start /\ threads = {} /\ ~enable_watching
    /\ \E config \in ConfigSources :
          fn = [op |-> "api", config |-> config, clock |-> 0, credential_time |-> 0,
                _apis |-> [k \in Kinds |-> 1], refreshes |-> 1,
                t |-> [t \in ApiThreads |-> ApiIdle]]

ApiUnchanged ==
    UNCHANGED <<jobs, pods, nextID, localReady, enable_watching, threads, call,
                submitted, returned, discDeleted, pristine, removed>>

\* Time passes.
Tick ==
    /\ fn.clock < MaxTicks * TickSeconds
    /\ fn' = [fn EXCEPT !.clock = @ + TickSeconds]
    /\ ApiUnchanged

\* A staleness test with twice the age limit.
Stale_TwiceTheAge(credential_time, now) == now - credential_time > 2 * max_age_seconds

\* line 210 (credential_time is never None after construction)
Stale(credential_time, now) == now - credential_time > max_age_seconds

\* lines 208-210: read the clock and test the age of the credentials
ApiEnter(t) ==
    /\ fn.t[t].pc \in {"idle", "done"}
    /\ \E kind \in Kinds \cup {"namespace"} :
          fn' = [fn EXCEPT !.t[t] =
                    [ApiIdle EXCEPT !.kind = kind, !.now = fn.clock,
                                    !.pc = IF Stale(fn.credential_time, fn.clock)
                                           THEN "load" ELSE "pick"]]
    /\ ApiUnchanged

\* lines 212-224: load the configuration
ApiLoad(t) ==
    /\ fn.t[t].pc = "load"
    /\ fn' = [fn EXCEPT !.refreshes = @ + 1,
                        !.t[t].refresh = fn.refreshes + 1,
                        !.t[t].config_source = fn.config.source,
                        !.t[t].pc = "batch"]
    /\ ApiUnchanged

\* line 227
ApiSetBatch(t) ==
    /\ fn.t[t].pc = "batch"
    /\ fn' = [fn EXCEPT !._apis["batch"] = fn.t[t].refresh, !.t[t].pc = "core"]
    /\ ApiUnchanged

\* line 228
ApiSetCore(t) ==
    /\ fn.t[t].pc = "core"
    /\ fn' = [fn EXCEPT !._apis["core"] = fn.t[t].refresh,
                        !.t[t].pc = "customObjects"]
    /\ ApiUnchanged

\* line 229
ApiSetCustomObjects(t) ==
    /\ fn.t[t].pc = "customObjects"
    /\ fn' = [fn EXCEPT !._apis["customObjects"] = fn.t[t].refresh,
                        !.t[t].pc = "stamp"]
    /\ ApiUnchanged

\* line 232
ApiStamp(t) ==
    /\ fn.t[t].pc = "stamp"
    /\ fn' = [fn EXCEPT !.credential_time = fn.t[t].now, !.t[t].pc = "pick"]
    /\ ApiUnchanged

\* lines 235-247: the namespace string, given the local config_source
namespaceOf(config_source, config) ==
    IF config_source = "unbound" THEN [ret |-> "", raised |-> "UnboundLocalError"]
    ELSE IF config_source = "in_cluster"
         THEN [ret |-> config.namespace[1], raised |-> ""]
    ELSE [ret |-> IF config.namespace = <<>> THEN "default" ELSE config.namespace[1],
          raised |-> ""]

\* lines 233-254: answer the call; apis keeps the handle set the answer was
\* taken from
ApiPick(t) ==
    /\ fn.t[t].pc = "pick"
    /\ fn' = [fn EXCEPT !.t[t] =
                 IF fn.t[t].kind = "namespace"
                 THEN [@ EXCEPT !.pc = "done",
                         !.ret = namespaceOf(fn.t[t].config_source, fn.config).ret,
                         !.raised = namespaceOf(fn.t[t].config_source,
                                                fn.config).raised]
                 ELSE [@ EXCEPT !.pc = "done", !.ret = str(fn._apis[fn.t[t].kind]),
                                !.apis = fn._apis]]
    /\ ApiUnchanged

NextApi ==
    \/ Tick
    \/ \E t \in ApiThreads :
          \/ ApiEnter(t) \/ ApiLoad(t) \/ ApiSetBatch(t) \/ ApiSetCore(t)
          \/ ApiSetCustomObjects(t) \/ ApiStamp(t) \/ ApiPick(t)

SpecApi == InitApi /\ [][NextApi]_vars

(***************************************************************************)
(* The call wrappers _try_kubernetes and _try_kubernetes_expecting_gone on *)
(* their own.  The lists of errors they hand to the retry decorator are    *)
(* those of kubernetes.py; the decorator is toil.lib.retry, a module of its *)
(* own, and its loop follows the documented retry policy: a bounded number *)
(* of attempts, a retry on the listed errors only, and no retry on a       *)
(* condition marked retry_on_this_condition=False.                         *)
(***************************************************************************)
\* What one call of the wrapped method can raise: its class and, for an
\* ApiException, its status.
MethodErrors ==
    {[type |-> "MaxRetryError", status |-> 0],
     [type |-> "ProtocolError", status |-> 0],
     [type |-> "ApiException", status |-> 404],
     [type |-> "ApiException", status |-> 500],
     [type |-> "ValueError", status |-> 0]}
NoError == [type |-> "", status |-> 0]

\* A list without the protocol errors.
retryable_kubernetes_errors_NoProtocol == {"MaxRetryError", "ApiException"}

\* retryable_kubernetes_errors, lines 56-58
retryable_kubernetes_errors == {"MaxRetryError", "ProtocolError", "ApiException"}

\* is_retryable_kubernetes_error(e), lines 61-69
is_retryable_kubernetes_error(e) == e.type \in retryable_kubernetes_errors

\* A wrapper whose decorator has no condition for 404.
expecting_gone_conditions_None == {}

\* _try_kubernetes_expecting_gone, lines 270-274: the ErrorCondition with
\* error=ApiException, error_codes=[404], retry_on_this_condition=False
expecting_gone_conditions == {[type |-> "ApiException", status |-> 404]}

\* The conditions not to retry on that each wrapper gives its decorator.
no_retry_conditions(wrapper) ==
    IF wrapper = "_try_kubernetes_expecting_gone" THEN expecting_gone_conditions
    ELSE {}

\* The decorator's decision: retry on a listed error that meets no condition
\* marked not to retry.
retries(wrapper, e) ==
    is_retryable_kubernetes_error(e) /\ e \notin no_retry_conditions(wrapper)

Wrappers == {"_try_kubernetes", "_try_kubernetes_expecting_gone"}

InitRetry ==
    /\ Start /\ threads = {} /\ ~enable_watching
    /\ \E wrapper \in Wrappers :
          fn = [op |-> "calling", wrapper |-> wrapper, history |-> <<>>,
                raised |-> NoError]

\* One attempt of the decorator's loop: the method returns, or raises an error
\* that is retried while attempts remain and raised otherwise.
Attempt ==
    /\ fn.op = "calling"
    /\ \/ fn' = [fn EXCEPT !.op = "returned", !.history = Append(@, NoError)]
       \/ \E e \in MethodErrors :
             fn' = [fn EXCEPT !.history = Append(@, e),
                      !.op = IF retries(fn.wrapper, e) /\ Len(fn.history) + 1 < MaxAttempts
                             THEN "calling" ELSE "raised",
                      !.raised = IF retries(fn.wrapper, e)
                                    /\ Len(fn.history) + 1 < MaxAttempts
                                 THEN NoError ELSE e]
    /\ UNCHANGED <<jobs, pods, nextID, localReady, enable_watching, threads, call,
                   submitted, returned, discDeleted, pristine, removed>>

NextRetry == Attempt

SpecRetry == InitRetry /\ [][NextRetry]_vars

(***************************************************************************)
(* _try_kubernetes_stream on its own: a generator over the items of a      *)
(* watch that ends by itself or with an error, and a caller that takes the *)
(* items one by one and may fail on one, in its own frame or by throwing   *)
(* the error into the generator.                                           *)
(***************************************************************************)
WatchItems == {"ADDED", "MODIFIED"}

\* The watches: their items and how they end (NoError: the stream is over).
Watches ==
    {[items |-> q, ending |-> x] :
        q \in UNION {[1..n -> WatchItems] : n \in 0..MaxItems},
        x \in MethodErrors \cup {NoError}}

InitStream ==
    /\ Start /\ threads = {} /\ ~enable_watching
    /\ \E w \in Watches :
          fn = [op |-> "next", items |-> w.items, ending |-> w.ending,
                delivered |-> <<>>, userError |-> FALSE, user |-> NoError,
                raised |-> NoError]

StreamUnchanged ==
    UNCHANGED <<jobs, pods, nextID, localReady, enable_watching, threads, call,
                submitted, returned, discDeleted, pristine, removed>>

\* A handler that does not look at userError.
streamError_IgnoresUserError(userError, e) ==
    IF is_retryable_kubernetes_error(e) THEN "return" ELSE "raise"

\* lines 312-327: the outer except clause
streamError(userError, e) ==
    IF userError THEN "raise"
    ELSE IF is_retryable_kubernetes_error(e) THEN "return"
    ELSE "raise"

\* lines 303-308 and 312-327: the generator asks the watch for its next item and
\* yields it, or the watch is over, or the watch raises
StreamPull ==
    /\ fn.op = "next"
    /\ IF Len(fn.delivered) < Len(fn.items)
       THEN fn' = [fn EXCEPT !.op = "yielded",
                     !.delivered = Append(@, fn.items[Len(fn.delivered) + 1])]
       ELSE IF fn.ending = NoError
            THEN fn' = [fn EXCEPT !.op = "ended"]
       ELSE IF streamError(fn.userError, fn.ending) = "return"
            THEN fn' = [fn EXCEPT !.op = "ended"]
       ELSE fn' = [fn EXCEPT !.op = "raised", !.raised = fn.ending]
    /\ StreamUnchanged

\* line 308: the caller is done with the item and asks for the next one
ConsumerContinue ==
    /\ fn.op = "yielded"
    /\ fn' = [fn EXCEPT !.op = "next"]
    /\ StreamUnchanged

\* line 308: the caller's code fails in its own frame; the generator is closed
\* with GeneratorExit, which no except Exception clause catches
ConsumerRaises ==
    /\ fn.op = "yielded"
    /\ \E e \in MethodErrors :
          fn' = [fn EXCEPT !.op = "raised", !.user = e, !.raised = e]
    /\ StreamUnchanged

\* lines 306-316: the caller throws its error into the generator at the yield;
\* the inner except clause sets userError and raises it again into the outer one
ConsumerThrows ==
    /\ fn.op = "yielded"
    /\ \E e \in MethodErrors :
          fn' = [fn EXCEPT !.userError = TRUE, !.user = e,
                   !.op = IF streamError(TRUE, e) = "return" THEN "ended" ELSE "raised",
                   !.raised = IF streamError(TRUE, e) = "return" THEN NoError ELSE e]
    /\ StreamUnchanged

NextStream == StreamPull \/ ConsumerContinue \/ ConsumerRaises \/ ConsumerThrows

SpecStream == InitStream /\ [][NextStream]_vars

(***************************************************************************)
(* The paging loop of _ourJobObject and _ourPodObject on its own.  The     *)
(* cluster holds a listing of objects 1..total and serves it in pages of   *)
(* at most limit objects; a response names the cursor of the next page in  *)
(* its metadata.  The objects of the client library carry the cursor under *)
(* the name _continue, the name the loop itself uses for the request       *)
(* argument (continue being a reserved word of the language).  None is     *)
(* <<>> and a cursor c is <<c>>.                                           *)
(***************************************************************************)
None == <<>>

Enumerations == {"_ourJobObject", "_ourJobObject(onlySucceeded=True)", "_ourPodObject"}

\* lines 551-554, 584-587: the keyword arguments of the list call
list_kwargs(token) ==
    IF token # None
    THEN [label_selector |-> "toil_run", _continue |-> token]
    ELSE [label_selector |-> "toil_run"]

\* list_namespaced_job, list_namespaced_pod: the page that starts at the cursor,
\* or the first page
list_page(total, limit, kwargs) ==
    LET first == IF "_continue" \in DOMAIN kwargs THEN kwargs._continue[1] ELSE 1
        last == IF first + limit - 1 < total THEN first + limit - 1 ELSE total IN
    [items |-> [k \in 1..(last - first + 1) |-> first + k - 1],
     metadata |-> [_continue |-> IF last < total THEN <<last + 1>> ELSE None,
                   resource_version |-> "1"]]

\* getattr(object, name, default)
getattr(object, name, default) ==
    IF name \in DOMAIN object THEN object[name] ELSE default

InitPages ==
    /\ Start /\ threads = {} /\ ~enable_watching
    /\ \E enumeration \in Enumerations, total \in 0..MaxListed, limit \in 1..MaxPage :
          fn = [op |-> "list", enumeration |-> enumeration, total |-> total,
                limit |-> limit, token |-> None, sent |-> <<>>, items |-> <<>>,
                metadata |-> [_continue |-> None, resource_version |-> ""],
                yielded |-> <<>>, raised |-> ""]

PagesUnchanged ==
    UNCHANGED <<jobs, pods, nextID, localReady, enable_watching, threads, call,
                submitted, returned, discDeleted, pristine, removed>>

\* lines 547-561, 580-589: one list call, which answers or fails (an expired
\* cursor is an API error with status 410)
PageList ==
    /\ fn.op = "list"
    /\ \/ \E e \in Failures : fn' = [fn EXCEPT !.op = "raised", !.raised = e]
       \/ LET kwargs == list_kwargs(fn.token)
              results == list_page(fn.total, fn.limit, kwargs) IN
          fn' = [fn EXCEPT !.op = "yield",
                   !.sent = Append(@, getattr(kwargs, "_continue", None)),
                   !.items = results.items, !.metadata = results.metadata]
    /\ PagesUnchanged

\* lines 562, 591: yield from results.items, one object at a time
PageYield ==
    /\ fn.op = "yield" /\ fn.items # <<>>
    /\ fn' = [fn EXCEPT !.yielded = Append(@, Head(fn.items)), !.items = Tail(@)]
    /\ PagesUnchanged

\* lines 564-569, 592-597: remember the continuation token; without one the loop
\* is over
PageToken ==
    /\ fn.op = "yield" /\ fn.items = <<>>
    /\ LET token == getattr(fn.metadata, "continue", None) IN
       fn' = [fn EXCEPT !.token = token,
                        !.op = IF token = None THEN "ended" ELSE "list"]
    /\ PagesUnchanged

NextPages == PageList \/ PageYield \/ PageToken

SpecPages == InitPages /\ [][NextPages]_vars

(***************************************************************************)
(* The polling branch of getUpdatedBatchJob on its own (watching off),     *)
(* with a clock in milliseconds: an immediate check takes some time and    *)
(* finds a job or nothing.                                                 *)
(***************************************************************************)
\* The values of maxWait tried, and the time one immediate check may take (ms).
MaxWaits == {0, 1000, 3000}
CheckTimes == {0, 300, 700}

\* A sleep of the whole of maxWait.
pollSleep_WholeWait(maxWait) == maxWait

\* line 825: min(maxWait/2, 1.0), in ms
pollSleep(maxWait) == IF maxWait \div 2 < 1000 THEN maxWait \div 2 ELSE 1000

InitPoll ==
    /\ Start /\ threads = {} /\ ~enable_watching
    /\ \E maxWait \in MaxWaits :
          fn = [op |-> "entry", maxWait |-> maxWait, entry |-> 0, now |-> 0,
                result |-> "None", checks |-> 0, sleeps |-> <<>>]

PollUnchanged ==
    UNCHANGED <<jobs, pods, nextID, localReady, enable_watching, threads, call,
                submitted, returned, discDeleted, pristine, removed>>

\* lines 754-760: the first immediate check and the early return
PollFirstCheck ==
    /\ fn.op = "entry"
    /\ \E d \in CheckTimes, result \in {"None", "job"} :
          fn' = [fn EXCEPT !.now = @ + d, !.result = result, !.checks = 1,
                           !.op = IF result # "None" \/ fn.maxWait = 0
                                  THEN "ret" ELSE "while"]
    /\ PollUnchanged

\* line 817: the loop test; line 828: the return
PollWhile ==
    /\ fn.op = "while"
    /\ fn' = [fn EXCEPT !.op = IF fn.result = "None" /\ fn.now - fn.entry < fn.maxWait
                                THEN "poll" ELSE "ret"]
    /\ PollUnchanged

\* lines 821-823: another immediate check
PollCheck ==
    /\ fn.op = "poll"
    /\ \E d \in CheckTimes, result \in {"None", "job"} :
          fn' = [fn EXCEPT !.now = @ + d, !.result = result, !.checks = @ + 1,
                           !.op = IF result = "None" THEN "sleep" ELSE "while"]
    /\ PollUnchanged

\* line 825: time.sleep(min(maxWait/2, 1.0))
PollSleep ==
    /\ fn.op = "sleep"
    /\ fn' = [fn EXCEPT !.now = @ + pollSleep(fn.maxWait),
                        !.sleeps = Append(@, pollSleep(fn.maxWait)),
                        !.op = "while"]
    /\ PollUnchanged

NextPoll == PollFirstCheck \/ PollWhile \/ PollCheck \/ PollSleep

SpecPoll == InitPoll /\ [][NextPoll]_vars

\* The polling thread keeps running.
SpecPollFair == SpecPoll /\ WF_vars(NextPoll)

(***************************************************************************)
(* Properties.                                                             *)
(***************************************************************************)
Owner(n) == CHOOSE i \in Insts : SubSeq(n, 1, Len(job_prefix(i))) = job_prefix(i)

OwnedJobs(i) == {n \in Names : Present(n) /\ jobs[n].label = run_id(i)}
OwnedPods(i) == {n \in Names : HasPod(n) /\ pods[n].label = run_id(i)}

Count(x, q) == Cardinality({k \in 1..Len(q) : q[k] = x})

\* C1: with a single caller, getUpdatedBatchJob returns a result for any one
\* internal job ID at most once.
C1_NeverReturnedTwice == \A n \in Names : returned[n] <= 1

\* A call made after the only job's result was returned has returned no result.
C1_Witness ==
    /\ nextID["A"] = 1 /\ returned[jobName("A", 0)] = 1 /\ submitted["A"] = {0}
    /\ call["a1"].pc = "ret" /\ call["a1"].op = "getUpdated"
    /\ call["a1"].res.kind = "none"

\* C2: every remote job whose delete request from a discovery call was accepted has
\* its result returned exactly once: never twice, and, once no call is in progress
\* any more, not zero times.
C2_ExactlyOnce ==
    \A n \in Names :
       /\ returned[n] <= 1
       /\ (n \in discDeleted /\ \A c \in threads : call[c].pc = "idle") => returned[n] = 1

\* C3: when _getUpdatedBatchJobImmediately returns a result record for a remote job,
\* that job is no longer on the cluster, so no listing can show it.
C3_ReturnedJobIsGone ==
    \A c \in threads :
       (call[c].pc \in {"imm_ret", "ret"} /\ call[c].op = "getUpdated"
            /\ call[c].res.kind = "remote")
          => ~Present(call[c].job)

\* A record is being returned for a job this call deleted and then saw gone.
C3_Witness ==
    /\ call["a1"].pc = "imm_ret" /\ call["a1"].res.kind = "remote"
    /\ call["a1"].job \in discDeleted
    /\ ~removed

\* C4: when two discovery calls have picked the same job and one of them has had its
\* delete request accepted, the other does not raise on a 'not found' answer.
C4_NotFoundNeverRaises ==
    \A c, d \in threads :
       (/\ c # d /\ ~removed
        /\ call[c].op = "getUpdated" /\ call[d].op = "getUpdated"
        /\ call[c].job # "" /\ call[c].job = call[d].job
        /\ call[c].job \in discDeleted
        /\ call[c].pc = "raised")
          => call[c].err # "notfound"

C6_InstancesAreIsolated ==
    /\ [](/\ \A n \in Names : Present(n) => jobs[n].label = run_id(Owner(n))
          /\ \A c \in threads :
                /\ call[c].job # "" => Owner(call[c].job) = inst(c)
                /\ \A k \in 1..Len(call[c].scan) : Owner(call[c].scan[k]) = inst(c)
                /\ call[c].res.kind = "remote" => call[c].res.jobID \in submitted[inst(c)])
    /\ [][\A c \in threads, n \in Names :
             (call'[c] # call[c] /\ (jobs'[n] # jobs[n] \/ pods'[n] # pods[n]))
                => Owner(n) = inst(c)]_vars

\* Instance A has shut down, deleting a job of its own, while a job of B is there.
C6_Witness ==
    /\ call["a1"].pc = "ret" /\ call["a1"].op = "shutdown"
    /\ submitted["A"] # {} /\ OwnedJobs("A") = {} /\ ~removed /\ discDeleted = {}
    /\ OwnedJobs("B") # {}

\* C7: jobName is injective in the internal ID and _getIDForOurJob is its inverse.
C7_NameRoundTrip ==
    fn.op = "id" =>
       /\ fn.id = fn.a
       /\ fn.na = job_prefix(fn.inst) \o str(fn.a)
       /\ fn.a # fn.b => fn.na # fn.nb

\* The functions have been applied to two different IDs of several digits.
C7_Witness == fn.op = "id" /\ fn.a = 101 /\ fn.b = 110 /\ fn.id = 101

\* C8: when killBatchJobs(ids) returns normally, no job named for an ID of ids is on
\* the cluster.
C8_KilledJobsAreGone ==
    \A c \in threads :
       (call[c].pc = "ret" /\ call[c].op = "kill")
          => \A id \in call[c].ids : ~Present(jobName(inst(c), id))

\* killBatchJobs has returned for both jobs, which only it can have deleted.
C8_Witness ==
    /\ call["a1"].pc = "ret" /\ call["a1"].op = "kill"
    /\ call["a1"].ids = {0, 1} /\ submitted["A"] = {0, 1}
    /\ ~removed /\ discDeleted = {}

\* C9: when two concurrent shutdown calls on one instance are both over, neither
\* has raised and no job carrying the instance's run label is left. (The pods of
\* the deleted jobs are left to the garbage collector.)
C9_ConcurrentShutdownClean ==
    (\A c \in threads : call[c].op = "shutdown" /\ call[c].pc \in {"ret", "raised"})
       => /\ \A c \in threads : call[c].pc = "ret"
          /\ OwnedJobs("A") = {}

\* C10: when shutdown returns after its bulk delete failed, no job carrying the
\* instance's run label is left on the cluster.
C10_FallbackLeavesNoJob ==
    \A c \in threads :
       (call[c].pc = "ret" /\ call[c].op = "shutdown" /\ call[c].chosenFor = "fallback")
          => OwnedJobs(inst(c)) = {}

\* C11: shutdown never raises because of a remote-call failure.
C11_ShutdownNeverRaises ==
    \A c \in threads : ~(call[c].pc = "raised" /\ call[c].op = "shutdown")

\* C12: when the job is first reported gone at the k-th read, _waitForJobDeath has
\* made k reads and k-1 sleeps; the i-th sleep is 100 ms doubled i-1 times, capped
\* at 6.4 s, so the sleeps grow strictly up to the cap and never exceed it.
C12_BackoffSchedule ==
    fn.op = "gone" =>
       /\ fn.polls = fn.k
       /\ Len(fn.sleeps) = fn.k - 1
       /\ \A i \in 1..Len(fn.sleeps) :
             /\ fn.sleeps[i] = (IF 100 * 2^(i - 1) < 6400 THEN 100 * 2^(i - 1) ELSE 6400)
             /\ fn.sleeps[i] <= 6400
             /\ (i > 1 /\ fn.sleeps[i - 1] < 6400) => fn.sleeps[i] > fn.sleeps[i - 1]

\* The job was reported gone at the third read, after sleeps of 100 ms and 200 ms.
C12_Witness == fn.op = "gone" /\ fn.k = 3 /\ fn.polls = 3 /\ fn.sleeps = <<100, 200>>

\* C13: every record returned for a remote job has an exitReason of FINISHED, FAILED
\* or LOST: FINISHED for a job chosen as done, FAILED for one chosen as failed.
C13_ExitReasonInEnum ==
    \A c \in threads :
       (call[c].pc \in {"imm_ret", "ret"} /\ call[c].op = "getUpdated"
            /\ call[c].res.kind = "remote")
          => /\ call[c].res.exitReason \in {"FINISHED", "FAILED", "LOST"}
             /\ call[c].chosenFor = "done" => call[c].res.exitReason = "FINISHED"
             /\ call[c].chosenFor = "failed" => call[c].res.exitReason = "FAILED"

\* C14: the record of a job chosen as stuck has exitReason FAILED, the 'unavailable'
\* exit status and a wall time from submission to now, and the job is gone when the
\* record is returned.
C14_StuckIsNormalFailure ==
    \A c \in threads :
       (call[c].pc = "imm_ret" /\ call[c].chosenFor = "stuck"
            /\ call[c].res.kind = "remote")
          => /\ call[c].res.exitReason = "FAILED"
             /\ call[c].res.exitStatus = EXIT_STATUS_UNAVAILABLE_VALUE
             /\ call[c].res.wallTime = "submit_to_now"
             /\ ~Present(call[c].job)

\* C15: a completion check that finds a local result ready returns that result; it
\* makes no remote call (none can fail) and leaves the cluster's jobs and pods as
\* they are.
C15_LocalFastPath ==
    [][\A c \in threads :
          (call[c].pc = "imm" /\ localReady[inst(c)] # {} /\ call'[c] # call[c])
             => /\ call'[c].pc = "imm_ret"
                /\ call'[c].res.kind = "local"
                /\ call'[c].res.jobID \in localReady[inst(c)]
                /\ jobs' = jobs /\ pods' = pods]_vars

\* A local result is being returned while a succeeded job waits on the cluster.
C15_Witness ==
    /\ call["a1"].pc = "imm_ret" /\ call["a1"].res.kind = "local"
    /\ \E n \in OwnedJobs("A") : jobs[n].status = "succeeded" /\ ~jobs[n].deleting

\* C16: with metrics for the pod's container, _isPodStuckOOM says stuck exactly when
\* the container's memory limit minus its usage is below minFreeBytes (2 MiB); with
\* no metrics items or no containers it says not stuck.
C16_StuckExactlyBelowMargin ==
    (fn.op = "oom" /\ fn.response.error = "none") =>
       LET limit == fn.spec.limits.memory IN
       /\ (fn.response.items = 1 /\ fn.response.containers = "one"
              /\ fn.response.memory # -1)
             => (fn.result = "true" <=> limit - fn.response.memory < 2 * 1024 * 1024)
       /\ (fn.response.items = 0 \/ fn.response.containers \in {"missing", "none"})
             => fn.result = "false"
       /\ fn.response.memory = limit - 1024 * 1024 => fn.result = "true"
       /\ fn.response.memory = limit - 3 * 1024 * 1024 => fn.result = "false"

\* A container using its limit less 1 MiB has been reported stuck.
C16_Witness ==
    /\ fn.op = "oom" /\ fn.result = "true"
    /\ fn.response.memory = fn.spec.limits.memory - 1024 * 1024

\* C17: an error of the metrics query never leaves a discovery call.
C17_MetricsErrorNeverRaises ==
    \A c \in threads :
       ~(call[c].pc = "raised" /\ call[c].op = "getUpdated" /\ call[c].err = "other")

\* C18: the pod spec has requests equal to limits, with cpu = cores, memory =
\* declared memory + 512 MiB and ephemeral-storage = declared disk + 512 MiB.
C18_RequestsEqualLimits ==
    fn.op \in {"spec", "oom"} =>
       /\ fn.spec.requests = fn.spec.limits
       /\ fn.spec.limits.cpu = fn.desc.cores
       /\ fn.spec.limits.memory = fn.desc.memory + 512 * 1024 * 1024
       /\ fn.spec.limits.ephemeral_storage = fn.desc.disk + 512 * 1024 * 1024

\* The spec of a job with 1 GiB of memory asks for and is limited to 1.5 GiB.
C18_Witness ==
    /\ fn.op = "spec" /\ fn.desc.memory = 1024 * 1024 * 1024
    /\ fn.spec.requests.memory = 1536 * 1024 * 1024
    /\ fn.spec.limits.memory = 1536 * 1024 * 1024

\* The number in the field that is the back-th from the end, 0 when it is omitted.
FieldVal(fields, back) ==
    IF back <= Len(fields) THEN fields[Len(fields) + 1 - back].val ELSE 0

WellFormed(fields) == Len(fields) <= 4 /\ \A k \in 1..Len(fields) : fields[k].val >= 0

\* C19: for a well-formed elapsed string parse_elapsed returns
\* days*86400 + hours*3600 + minutes*60 + seconds, omitted leading fields being 0.
C19_ParseElapsedValue ==
    (fn.op = "parsed" /\ WellFormed(fn.fields)) =>
       /\ fn.result = FieldVal(fn.fields, 4) * 86400 + FieldVal(fn.fields, 3) * 3600
                         + FieldVal(fn.fields, 2) * 60 + FieldVal(fn.fields, 1)
       /\ fn.elapsed = "01:02:03" => fn.result = 3723
       /\ fn.elapsed = "1-00:00:00" => fn.result = 86400

\* "01:02:03" has been parsed to 3723.
C19_Witness == fn.op = "parsed" /\ fn.elapsed = "01:02:03" /\ fn.result = 3723

\* C20: for an elapsed string with a field that is not an integer, in whichever
\* position, parse_elapsed returns 0.
C20_UnparseableGivesZero ==
    (fn.op = "parsed" /\ Len(fn.fields) <= 4 /\ \E k \in 1..Len(fn.fields) : fn.fields[k].val < 0)
       => fn.result = 0

\* The last record of the listing that is of job j itself, not of a step; 0 if none.
LastJobRecord(records, j) ==
    LET own == {k \in 1..Len(records) : records[k].id = j /\ records[k].step = ""} IN
    IF own = {} THEN 0 ELSE CHOOSE k \in own : \A m \in own : m <= k

\* C21: a job's entry is made from its own last record: the return code is
\* 128 + signal when signal > 0 and status otherwise; records of job steps change
\* no entry, and a job with no record of its own keeps (None, None).
C21_SacctReturnCode ==
    fn.op \in {"details", "exitcode"} =>
       LET k == LastJobRecord(fn.records, 7)
           r == fn.records[k] IN
       IF k = 0 THEN fn.job_statuses[7] = NoneStatus
       ELSE /\ fn.job_statuses[7].state = r.state
            /\ fn.job_statuses[7].rc =
                  <<IF r.signal > 0 THEN 128 + r.signal ELSE r.status>>
            /\ (r.status = 0 /\ r.signal = 9) => fn.job_statuses[7].rc = <<137>>
            /\ (r.status = 0 /\ r.signal = 0) => fn.job_statuses[7].rc = <<0>>

\* The job's record "0:9" gave 137 and the step record after it changed nothing.
C21_Witness ==
    /\ fn.op = "details" /\ Len(fn.records) = 2
    /\ fn.records[1] = [id |-> 7, step |-> "", state |-> "FAILED", status |-> 0,
                        signal |-> 9]
    /\ fn.records[2].step = ".batch" /\ fn.records[2].signal = 0
    /\ fn.job_statuses[7].rc = <<137>>

C23_NoHalfUpdatedHandleSet ==
    \A t \in ApiThreads :
       (fn.t[t].pc = "done" /\ fn.t[t].kind \in Kinds) =>
          /\ fn.t[t].apis["batch"] = fn.t[t].apis["core"]
          /\ fn.t[t].apis["core"] = fn.t[t].apis["customObjects"]

\* C24: a finished call _api('namespace') has returned the namespace its source
\* names, whether or not it refreshed the credentials.
C24_NamespaceInEveryCacheState ==
    \A t \in ApiThreads :
       (fn.t[t].pc = "done" /\ fn.t[t].kind = "namespace") =>
          /\ fn.t[t].raised = ""
          /\ fn.t[t].ret = IF fn.config.namespace = <<>> THEN "default"
                           ELSE fn.config.namespace[1]

\* C25: when the succeeded-only enumeration yields jobs, the immediate check takes
\* the first of them, with reason 'done'.
C25_FirstSucceededIsPicked ==
    [][\A c \in Callers :
          (call[c].pc = "imm" /\ call'[c].pc = "resolve") =>
             /\ call'[c].chosenFor = "done"
             /\ call'[c].job = Head(_ourJobObject(inst(c), TRUE))]_vars

C27_StandardRetriesTransientOnly ==
    fn.wrapper = "_try_kubernetes" =>
       LET n == Len(fn.history)
           transient(e) == e.type \in {"MaxRetryError", "ProtocolError", "ApiException"} IN
       /\ n <= MaxAttempts
       /\ \A k \in 1..(n - 1) : transient(fn.history[k])
       /\ fn.op = "calling" => /\ n < MaxAttempts
                               /\ \A k \in 1..n : transient(fn.history[k])
       /\ fn.op = "returned" => fn.history[n] = NoError /\ fn.raised = NoError
       /\ fn.op = "raised" =>
             /\ fn.raised = fn.history[n] /\ fn.raised # NoError
             /\ transient(fn.raised) => n = MaxAttempts

\* The wrapper gave up on a third transient error in a row, a 404 among them.
C27_Witness ==
    /\ fn.wrapper = "_try_kubernetes" /\ fn.op = "raised"
    /\ Len(fn.history) = MaxAttempts
    /\ fn.history[1] = [type |-> "ApiException", status |-> 404]
    /\ fn.raised.type = "ProtocolError"

\* C28: _try_kubernetes_expecting_gone raises a 404 from the attempt that met
\* it and never makes another attempt after one; with every other error it does
\* what the standard wrapper does: the transient ones are retried until the
\* attempts run out, the others are raised at once.
C28_ExpectingGoneRaises404 ==
    fn.wrapper = "_try_kubernetes_expecting_gone" =>
       LET n == Len(fn.history)
           gone(e) == e = [type |-> "ApiException", status |-> 404]
           transient(e) == e.type \in {"MaxRetryError", "ProtocolError", "ApiException"} IN
       /\ n <= MaxAttempts
       /\ \A k \in 1..n :
             gone(fn.history[k]) => k = n /\ fn.op = "raised" /\ fn.raised = fn.history[k]
       /\ \A k \in 1..(n - 1) : transient(fn.history[k])
       /\ fn.op = "calling" => /\ n < MaxAttempts
                               /\ \A k \in 1..n : transient(fn.history[k])
       /\ fn.op = "returned" => fn.history[n] = NoError
       /\ fn.op = "raised" =>
             /\ fn.raised = fn.history[n] /\ fn.raised # NoError
             /\ (transient(fn.raised) /\ ~gone(fn.raised)) => n = MaxAttempts

\* After a retried API error with status 500, a 404 was raised by the second
\* attempt.
C28_Witness ==
    /\ fn.wrapper = "_try_kubernetes_expecting_gone" /\ fn.op = "raised"
    /\ Len(fn.history) = 2
    /\ fn.history[1] = [type |-> "ApiException", status |-> 500]
    /\ fn.raised = [type |-> "ApiException", status |-> 404]

\* C29: the items reach the caller in the order of the watch, all of them unless
\* the caller fails; an error of the caller comes out as it is, whatever its
\* class; a transient error of the watch ends the stream with no error; any
\* other error of the watch comes out.
C29_StreamErrors ==
    LET n == Len(fn.delivered)
        over == fn.op \in {"ended", "raised"}
        transient(e) == e.type \in {"MaxRetryError", "ProtocolError", "ApiException"} IN
    fn.op \in {"next", "yielded", "ended", "raised"} =>
       /\ n <= Len(fn.items) /\ fn.delivered = SubSeq(fn.items, 1, n)
       /\ fn.user # NoError => (fn.op = "raised" /\ fn.raised = fn.user)
       /\ (over /\ fn.user = NoError) =>
             /\ fn.delivered = fn.items
             /\ (fn.ending = NoError \/ transient(fn.ending)) =>
                   (fn.op = "ended" /\ fn.raised = NoError)
             /\ (fn.ending # NoError /\ ~transient(fn.ending)) =>
                   (fn.op = "raised" /\ fn.raised = fn.ending)

\* The caller threw an API error into the generator on the first of two items
\* and the same error came out.
C29_Witness ==
    /\ fn.op = "raised" /\ fn.userError /\ Len(fn.items) = 2 /\ Len(fn.delivered) = 1
    /\ fn.user = [type |-> "ApiException", status |-> 500]
    /\ fn.raised = fn.user

\* C30: an enumeration that ended normally skipped no page: its first list call
\* carried no cursor, each later one carried the cursor of the response before
\* it, every object of the listing was yielded once and in order, and the last
\* response named no cursor; an enumeration whose list call failed has raised.
C30_NoPageSkipped ==
    /\ fn.op = "ended" =>
          /\ fn.yielded = [k \in 1..fn.total |-> k]
          /\ fn.metadata._continue = None
          /\ fn.sent # <<>> /\ fn.sent[1] = None
          /\ \A k \in 2..Len(fn.sent) : fn.sent[k] = <<(k - 1) * fn.limit + 1>>
    /\ fn.op = "raised" => fn.raised \in Failures

\* C31: a call of _api goes on without a refresh exactly when the credentials
\* are at most max_age_seconds old at its start, and refreshes otherwise; a
\* refresh assigns the batch, core and customObjects handles, in that order, and
\* only then records the start of the call as the new refresh time; a handle is
\* handed out only after one of the two.
C31_FreshAtStartOfCall ==
    [][\A t \in ApiThreads :
          LET old == fn.t[t]
              new == fn'.t[t] IN
          /\ (old.pc \in {"idle", "done"} /\ new.pc = "pick") =>
                (new.now = fn.clock /\ new.now - fn.credential_time <= max_age_seconds)
          /\ (old.pc \in {"idle", "done"} /\ new.pc = "load") =>
                (new.now = fn.clock /\ new.now - fn.credential_time > max_age_seconds)
          /\ (old.pc # "pick" /\ new.pc = "pick") => old.pc \in {"idle", "done", "stamp"}
          /\ (old.pc = "batch" /\ new.pc # "batch") =>
                (new.pc = "core" /\ fn'._apis["batch"] = old.refresh)
          /\ (old.pc = "core" /\ new.pc # "core") =>
                (new.pc = "customObjects" /\ fn'._apis["core"] = old.refresh)
          /\ (old.pc = "customObjects" /\ new.pc # "customObjects") =>
                (new.pc = "stamp" /\ fn'._apis["customObjects"] = old.refresh
                 /\ fn'.credential_time = fn.credential_time)
          /\ (old.pc = "stamp" /\ new.pc # "stamp") =>
                (new.pc = "pick" /\ fn'.credential_time = old.now
                 /\ fn'._apis = fn._apis)
          /\ (old.pc # "done" /\ new.pc = "done" /\ new.kind \in Kinds) =>
                (old.pc = "pick" /\ new.ret = str(fn._apis[new.kind]))]_vars

\* A call that found the credentials too old has refreshed them and handed out a
\* handle of its own refresh.
C31_Witness ==
    \E t \in ApiThreads :
       /\ fn.t[t].pc = "done" /\ fn.t[t].kind = "core"
       /\ fn.t[t].refresh > 1 /\ fn.t[t].ret = str(fn.t[t].refresh)
       /\ fn.credential_time = fn.t[t].now /\ fn.t[t].now > max_age_seconds

\* C32: killBatchJobs does not raise on the 'not found' answer to a delete request
\* for a job that was listed as issued and has gone since.
C32_KillToleratesGone ==
    \A c \in threads :
       (call[c].op = "kill" /\ call[c].pc = "raised") => call[c].err # "notfound"

\* C33: _waitForJobDeath returns only on a read that answered 'not found', goes
\* on reading while the reads succeed, and raises on a read that failed otherwise;
\* when the cluster removes the job after finitely many reads and no read fails,
\* it returns.
C33_WaitEndsOnNotFound ==
    /\ [](/\ fn.op = "gone" => (fn.answer = "notfound" /\ fn.polls = fn.k)
          /\ fn.answer = "notfound" => fn.op = "gone"
          /\ fn.answer = "ok" => (fn.op = "waiting" /\ fn.polls < fn.k)
          /\ fn.answer \in Failures <=> fn.op = "raised")
    /\ <>(fn.op = "gone" \/ fn.answer \in Failures)

\* The job was still there at two reads, a third read answered 'not found' and
\* the wait is over.
C33_Witness ==
    /\ fn.op = "gone" /\ fn.answer = "notfound" /\ fn.k = 3 /\ Len(fn.sleeps) = 2

C35_WatchEventsHandled ==
    \A c \in threads :
       (enable_watching /\ call[c].op = "getUpdated" /\ call[c].pc = "raised")
          => call[c].err # "attr"

\* C36: for a job chosen as done or failed whose pod is gone, has no container
\* status or has no terminated container, the immediate check builds a record
\* for that job with the 'unavailable' exit status and goes on to delete the
\* job; the missing data makes it raise nothing, and the job is gone when the
\* record is returned.
C36_MissingPodDataGivesSentinel ==
    /\ [][\A c \in Callers :
             LET pod == _getPodForJob(call[c].job)
                 missing == /\ call[c].chosenFor \in {"done", "failed"}
                            /\ pod \in {"none", "sched", "imgpull", "running"} IN
             (call[c].pc = "resolve" /\ call'[c].pc # "resolve" /\ missing) =>
                \/ /\ call'[c].pc = "delete"
                   /\ call'[c].res.kind = "remote"
                   /\ call'[c].res.exitStatus = 255
                   /\ call'[c].res.jobID = _getIDForOurJob(inst(c), call[c].job)
                   /\ call'[c].job = call[c].job
                \/ /\ call'[c].pc = "raised"
                   /\ call'[c].err \in Failures]_vars
    /\ [](\A c \in threads :
             (call[c].pc = "imm_ret" /\ call[c].res.kind = "remote"
                 /\ call[c].res.exitStatus = 255)
                => ~Present(call[c].job))

\* A record with the 'unavailable' exit status is being returned for a job that
\* was chosen as done and whose pod had gone.
C36_Witness ==
    \E c \in threads :
       /\ call[c].pc = "imm_ret" /\ call[c].res.kind = "remote"
       /\ call[c].chosenFor = "done" /\ call[c].res.exitStatus = 255
       /\ ~Present(call[c].job)

\* C37: the pod of a job that declared memory m is limited to m + 512 MiB, and
\* with the margin of 2 MiB the job is not reported stuck while it uses at most
\* m: it is reported stuck only when it uses more than m + 510 MiB.
C37_NeverStuckBelowDeclaredMemory ==
    (fn.op = "oom" /\ fn.response.error = "none" /\ fn.response.items = 1
        /\ fn.response.containers = "one" /\ fn.response.memory # -1) =>
       LET m == fn.desc.memory
           used == fn.response.memory IN
       /\ fn.spec.limits.memory = m + 512 * 1024 * 1024
       /\ used <= m => fn.result = "false"
       /\ fn.result = "true" <=> used > m + 510 * 1024 * 1024

\* A job that declared 1 GiB and uses exactly 1 GiB has not been reported stuck.
C37_Witness ==
    /\ fn.op = "oom" /\ fn.desc.memory = 1024 * 1024 * 1024
    /\ fn.response.error = "none" /\ fn.response.memory = fn.desc.memory
    /\ fn.result = "false"

\* C39: a step in which a delete request of a discovery call is accepted takes one
\* job only: the job the immediate check has chosen and built its result record
\* for, which has succeeded, has failed or was found stuck. The check then only
\* waits for that job to go, and returns that record or raises. A check that
\* returns none, or a local result, comes straight from its listings and has had
\* no delete accepted.
C39_DeletesOnlyTheReturnedJob ==
    [][/\ Cardinality(discDeleted' \ discDeleted) <= 1
       /\ \A n \in discDeleted' \ discDeleted :
             \E c \in threads :
                /\ call[c].pc = "delete" /\ call[c].job = n
                /\ call[c].res.kind = "remote"
                /\ jobName(inst(c), call[c].res.jobID) = n
                /\ call'[c].pc = "wait" /\ call'[c].res = call[c].res
                /\ jobs[n].status # "active" \/ call[c].chosenFor = "stuck"
       /\ \A c \in threads :
             /\ call[c].pc = "wait" =>
                   /\ call'[c].pc \in {"wait", "imm_ret", "raised"}
                   /\ call'[c].pc # "raised" => call'[c].res = call[c].res
                   /\ discDeleted' = discDeleted
             /\ (call'[c].pc = "imm_ret" /\ call[c].pc # "imm_ret") =>
                   IF call'[c].res.kind = "remote"
                   THEN /\ call[c].pc \in {"delete", "wait"}
                        /\ jobName(inst(c), call'[c].res.jobID) = call[c].job
                   ELSE /\ call[c].pc \in {"imm", "imm_scan"}
                        /\ discDeleted' = discDeleted]_vars

\* The delete request for a job found stuck, which is still active, has been
\* accepted and the check is waiting for the job to go.
C39_Witness ==
    /\ call["a1"].pc = "wait" /\ call["a1"].chosenFor = "stuck"
    /\ call["a1"].job \in discDeleted
    /\ jobs[call["a1"].job].status = "active"

\* C38: _get_job_details returns what sacct reports, without running scontrol,
\* when the call of sacct succeeds; when that call fails, whatever the failure, it
\* does not raise out of it but goes on to scontrol and returns what scontrol
\* reports; either way every requested job ID has an entry.
C38_SacctThenScontrol ==
    /\ (fn.op \in {"returned", "coalesced"} /\ fn.sacct.error = "none") =>
          /\ fn.ran = <<"sacct">>
          /\ fn.status_dict.val = _getJobDetailsFromSacct(fn.job_id_list, fn.sacct.stdout)
    /\ (fn.op \in {"returned", "coalesced"} /\ fn.sacct.error \in CallErrors) =>
          /\ fn.ran = <<"sacct", "scontrol">>
          /\ fn.status_dict.val =
                _getJobDetailsFromScontrol(fn.job_id_list, fn.scontrol.stdout).job_statuses
    /\ fn.op \in {"returned", "coalesced"} =>
          \A k \in 1..Len(fn.job_id_list) : fn.status_dict.val[fn.job_id_list[k]].has
    /\ (fn.op = "raised" /\ fn.sacct.error \in CallErrors) => fn.ran # <<"sacct">>

\* C40: the list coalesce_job_exit_codes returns is as long as the list of batch
\* job IDs it was given, and its i-th element is the return code of the i-th job.
C40_AlignedWithInput ==
    fn.op = "coalesced" =>
       /\ Len(fn.exit_codes) = Len(fn.batch_job_id_list)
       /\ \A k \in 1..Len(fn.batch_job_id_list) :
             fn.exit_codes[k] = _get_job_return_code(fn.status_dict.val[fn.job_id_list[k]])

====
